---- MODULE Spec2Model ----
(***************************************************************************)
(* Freeform: submission intake and delivery pipeline.                      *)
(*                                                                         *)
(*   SpecWebhook  the webhook dispatcher and retry scheduler               *)
(*                (services/webhook.ts, services/webhook-retry.ts,         *)
(*                 queues/webhook-consumer.ts, services/db.ts)             *)
(*   SpecRateSeq  the rate limiter under one request at a time             *)
(*                (middleware/rate-limit.ts)                               *)
(*   Spec         the submission and verification handlers, one request    *)
(*                at a time (routes/submit.ts, routes/verify.ts,           *)
(*                services/spam.ts, form.ts, verification.ts, email.ts)    *)
(***************************************************************************)
EXTENDS Bags, FiniteSets, Integers, Naturals, Sequences, TLC

(***************************************************************************)
(* Bounds of the model.                                                    *)
(***************************************************************************)
MaxDeliveries == 1
MaxFaults == 1
MaxTicks == 2
MaxRlSlots == 2
MaxChecks == 11
MaxRaceChecks == 6
MaxRaceTicks == 1
MaxInflight == 2
MaxSubmits == 2
MaxWords == 4
MaxLinks == 9
MaxStamp == 1
MaxSkew == 1

VARIABLES
  deliveries,   \* webhook_deliveries table: delivery id -> row
  queue,        \* WEBHOOK_QUEUE: bag of messages waiting for the consumer
  wstate,       \* the queue consumer: its message and position in processWebhookMessage
  enqueued,     \* every message ever passed to WEBHOOK_QUEUE.send
  httpCalls,    \* delivery id -> number of fetch() calls made for it
  faults        \* environment faults so far: duplicate deliveries by the queue,
                \* and storage or queue calls that threw

VARIABLES
  clock,        \* Date.now(), in milliseconds
  ticks,        \* number of times the clock has advanced
  rateLimit,    \* the limit the middleware was built with
  kvRate,       \* KV namespace, "rate:" keys: key -> stored window
  rl,           \* rate-limit checks in flight: slot -> position and locals
  rlResult,     \* outcome of the last check completed
  winStart,     \* key -> time of the first request of the current window
  winCount,     \* key -> requests made so far in the current window
  winRace,      \* key -> stored window start -> of the checks that used that
                \* window, how many were let through and how many ran while
                \* another check was in flight
  checks,       \* number of requests the middleware has received
  passed        \* number of requests the middleware has handed to next()

VARIABLES
  env,          \* the Worker's bindings: which secrets are configured
  forms,        \* forms table: normalized email -> row
  submissions,  \* submissions table: submission id -> row
  kvVerify,     \* KV, "verify:<token>" keys: token -> verification data
  kvVerifyEmail,\* KV, "verify:email:<email>" keys: email -> token
  emails,       \* messages handed to the mail provider
  req,          \* HTTP requests being handled: slot -> position and locals
  done,         \* the request answered last, with its response
  nreq,         \* number of submissions received
  issued,       \* every token createVerificationToken has returned
  consumed      \* the tokens deleteVerificationToken was called for

VARIABLES
  call,         \* the function evaluated on its own, with its arguments
  result        \* what the call returned

webhookVars == <<deliveries, queue, wstate, enqueued, httpCalls, faults>>

rateVars == <<clock, ticks, rateLimit, kvRate, rl, rlResult, winStart, winCount, winRace, checks, passed>>

intakeVars == <<env, forms, submissions, kvVerify, kvVerifyEmail, emails, req, done, nreq, issued, consumed>>

pureVars == <<call, result>>

vars == <<webhookVars, rateVars, intakeVars, pureVars>>

(***************************************************************************)
(* services/webhook-retry.ts                                               *)
(***************************************************************************)
MAX_RETRY_ATTEMPTS == 5

BASE_DELAY_SECONDS == 1

RECURSIVE Pow(_, _)
Pow(b, e) == IF e <= 0 THEN 1 ELSE b * Pow(b, e - 1)

calculateRetryDelay_linear(attempt) == BASE_DELAY_SECONDS * 2 * (attempt - 1)

calculateRetryDelay(attempt) == BASE_DELAY_SECONDS * Pow(2, attempt - 1)

shouldRetry_inclusive(attempt) == attempt <= MAX_RETRY_ATTEMPTS

shouldRetry(attempt) == attempt < MAX_RETRY_ATTEMPTS

createRetryMessage(original, nextAttempt) == [original EXCEPT !.attempt = nextAttempt]

(***************************************************************************)
(* services/db.ts: webhook_deliveries                                      *)
(***************************************************************************)
DeliveryIds == 1..(MaxDeliveries + MaxSubmits)

Idle ==
  [pc |-> "idle", msg |-> [delivery_id |-> 0, attempt |-> 0, delaySeconds |-> 0],
   error |-> "null"]

\* UPDATE webhook_deliveries SET <the fields present in updates> WHERE id = ?
updateWebhookDelivery(table, id, updates) ==
  IF id \in DOMAIN table
    THEN [table EXCEPT ![id] =
            [f \in DOMAIN table[id] |->
               IF f \in DOMAIN updates THEN updates[f] ELSE table[id][f]]]
    ELSE table

\* INSERT INTO webhook_deliveries
createWebhookDelivery(table, id, delivery) == (id :> delivery) @@ table

(***************************************************************************)
(* services/webhook.ts                                                     *)
(***************************************************************************)
\* The row and the first message built by queueWebhookDelivery.
NewDelivery(submissionId) ==
  [submission_id |-> submissionId, status |-> "pending", attempts |-> 0,
   last_error |-> "null", next_retry_at |-> "null"]

FirstMessage_attemptZero(id) == [delivery_id |-> id, attempt |-> 0, delaySeconds |-> 0]

FirstMessage(id) == [delivery_id |-> id, attempt |-> 1, delaySeconds |-> 0]

\* env.WEBHOOK_QUEUE.send(msg, {delaySeconds})
QueueSend(msg) ==
  /\ queue' = queue (+) SetToBag({msg})
  /\ enqueued' = enqueued \cup {msg}

\* queueWebhookDelivery: insert the row, then send the first message.
queueWebhookDelivery(submissionId) ==
  /\ \E id \in DeliveryIds \ DOMAIN deliveries :
       /\ \A j \in DeliveryIds \ DOMAIN deliveries : id <= j
       /\ deliveries' = createWebhookDelivery(deliveries, id, NewDelivery(submissionId))
       /\ QueueSend(FirstMessage(id))

\* markWebhookFailed
markWebhookFailed(table, id, error) ==
  updateWebhookDelivery(table, id, [status |-> "failed", last_error |-> error])

(***************************************************************************)
(* The queue hands a message to a consumer invocation.                     *)
(***************************************************************************)
Receive ==
  /\ wstate.pc = "idle"
  /\ \E m \in BagToSet(queue) :
       /\ queue' = queue (-) SetToBag({m})
       /\ wstate' = [pc |-> "fetch", msg |-> m, error |-> "null"]
  /\ UNCHANGED <<deliveries, enqueued, httpCalls, faults>>
  /\ UNCHANGED <<rateVars, intakeVars, pureVars>>

\* At-least-once delivery: the queue may hand out a message it was sent a
\* second time.
Redeliver ==
  /\ faults < MaxFaults
  /\ \E m \in enqueued :
       /\ queue' = queue (+) SetToBag({m})
       /\ faults' = faults + 1
  /\ UNCHANGED <<deliveries, wstate, enqueued, httpCalls>>
  /\ UNCHANGED <<rateVars, intakeVars, pureVars>>

(***************************************************************************)
(* deliverWebhook, one step per await.                                     *)
(***************************************************************************)
\* fetch(url, ...): the HTTP call and the branch taken on its outcome.
DeliverFetch ==
  /\ wstate.pc = "fetch"
  /\ \E outcome \in {"ok", "http_error", "network_error"} :
       LET d == wstate.msg.delivery_id IN
       /\ httpCalls' = [httpCalls EXCEPT ![d] = @ + 1]
       /\ wstate' = [wstate EXCEPT !.pc =
                        CASE outcome = "ok" -> "mark_success"
                          [] outcome = "http_error" -> "record_error"
                          [] OTHER -> "catch",
                      !.error =
                        CASE outcome = "ok" -> "null"
                          [] outcome = "http_error" -> "http_error"
                          [] OTHER -> "network_error"]
  /\ UNCHANGED <<deliveries, queue, enqueued, faults>>
  /\ UNCHANGED <<rateVars, intakeVars, pureVars>>

\* response.ok: updateWebhookDelivery({status: success, attempts, last_error: null})
DeliverSuccess ==
  /\ wstate.pc = "mark_success"
  /\ LET m == wstate.msg IN
     \/ /\ deliveries' = updateWebhookDelivery(deliveries, m.delivery_id,
                           [status |-> "success", attempts |-> m.attempt, last_error |-> "null"])
        /\ wstate' = [wstate EXCEPT !.pc = "ack"]
        /\ UNCHANGED faults
     \/ \* the update throws inside the try block: the catch block takes over
        /\ faults < MaxFaults
        /\ faults' = faults + 1
        /\ wstate' = [wstate EXCEPT !.pc = "catch", !.error = "db_error"]
        /\ UNCHANGED deliveries
  /\ UNCHANGED <<queue, enqueued, httpCalls>>
  /\ UNCHANGED <<rateVars, intakeVars, pureVars>>

\* non-2xx: updateWebhookDelivery({attempts, last_error}); return failure
DeliverHttpError ==
  /\ wstate.pc = "record_error"
  /\ LET m == wstate.msg IN
     \/ /\ deliveries' = updateWebhookDelivery(deliveries, m.delivery_id,
                           [attempts |-> m.attempt, last_error |-> wstate.error])
        /\ wstate' = [wstate EXCEPT !.pc = "schedule"]
        /\ UNCHANGED faults
     \/ /\ faults < MaxFaults
        /\ faults' = faults + 1
        /\ wstate' = [wstate EXCEPT !.pc = "catch", !.error = "db_error"]
        /\ UNCHANGED deliveries
  /\ UNCHANGED <<queue, enqueued, httpCalls>>
  /\ UNCHANGED <<rateVars, intakeVars, pureVars>>

\* catch (err): updateWebhookDelivery({attempts, last_error}); return failure
DeliverCatch_marksFailed ==
  /\ wstate.pc = "catch"
  /\ LET m == wstate.msg IN
     \/ /\ deliveries' = updateWebhookDelivery(deliveries, m.delivery_id,
                           [status |-> "failed", attempts |-> m.attempt,
                            last_error |-> wstate.error])
        /\ wstate' = [wstate EXCEPT !.pc = "schedule"]
        /\ UNCHANGED faults
     \/ /\ faults < MaxFaults
        /\ faults' = faults + 1
        /\ wstate' = [wstate EXCEPT !.pc = "nack"]
        /\ UNCHANGED deliveries
  /\ UNCHANGED <<queue, enqueued, httpCalls>>
  /\ UNCHANGED <<rateVars, intakeVars, pureVars>>

DeliverCatch ==
  /\ wstate.pc = "catch"
  /\ LET m == wstate.msg IN
     \/ /\ deliveries' = updateWebhookDelivery(deliveries, m.delivery_id,
                           [attempts |-> m.attempt, last_error |-> wstate.error])
        /\ wstate' = [wstate EXCEPT !.pc = "schedule"]
        /\ UNCHANGED faults
     \/ \* the update in the catch block throws: processWebhookMessage throws
        /\ faults < MaxFaults
        /\ faults' = faults + 1
        /\ wstate' = [wstate EXCEPT !.pc = "nack"]
        /\ UNCHANGED deliveries
  /\ UNCHANGED <<queue, enqueued, httpCalls>>
  /\ UNCHANGED <<rateVars, intakeVars, pureVars>>

(***************************************************************************)
(* queues/webhook-consumer.ts                                              *)
(***************************************************************************)
\* processWebhookMessage after a failed delivery: retry or mark failed.
ScheduleRetry ==
  /\ wstate.pc = "schedule"
  /\ LET m == wstate.msg IN
     IF shouldRetry(m.attempt)
       THEN \/ /\ QueueSend([createRetryMessage(m, m.attempt + 1)
                               EXCEPT !.delaySeconds = calculateRetryDelay(m.attempt + 1)])
               /\ wstate' = [wstate EXCEPT !.pc = "ack"]
               /\ UNCHANGED <<deliveries, faults>>
            \/ /\ faults < MaxFaults
               /\ faults' = faults + 1
               /\ wstate' = [wstate EXCEPT !.pc = "nack"]
               /\ UNCHANGED <<deliveries, queue, enqueued>>
       ELSE \/ /\ deliveries' = markWebhookFailed(deliveries, m.delivery_id, wstate.error)
               /\ wstate' = [wstate EXCEPT !.pc = "ack"]
               /\ UNCHANGED <<queue, enqueued, faults>>
            \/ /\ faults < MaxFaults
               /\ faults' = faults + 1
               /\ wstate' = [wstate EXCEPT !.pc = "nack"]
               /\ UNCHANGED <<deliveries, queue, enqueued>>
  /\ UNCHANGED <<httpCalls>>
  /\ UNCHANGED <<rateVars, intakeVars, pureVars>>

\* processWebhookBatch: message.ack()
Ack ==
  /\ wstate.pc = "ack"
  /\ wstate' = Idle
  /\ UNCHANGED <<deliveries, queue, enqueued, httpCalls, faults>>
  /\ UNCHANGED <<rateVars, intakeVars, pureVars>>

\* processWebhookBatch: message.retry() puts the message back on the queue
Nack_acks ==
  /\ wstate.pc = "nack"
  /\ wstate' = Idle
  /\ UNCHANGED <<deliveries, queue, enqueued, httpCalls, faults>>
  /\ UNCHANGED <<rateVars, intakeVars, pureVars>>

Nack ==
  /\ wstate.pc = "nack"
  /\ queue' = queue (+) SetToBag({wstate.msg})
  /\ wstate' = Idle
  /\ UNCHANGED <<deliveries, enqueued, httpCalls, faults>>
  /\ UNCHANGED <<rateVars, intakeVars, pureVars>>

\* routes/submit.ts line 105, for a stored submission of a verified form
EnqueueWebhook ==
  /\ Cardinality(DOMAIN deliveries) < MaxDeliveries
  /\ queueWebhookDelivery(Cardinality(DOMAIN deliveries) + 1)
  /\ UNCHANGED <<wstate, httpCalls, faults>>
  /\ UNCHANGED <<rateVars, intakeVars, pureVars>>

InitWebhook ==
  /\ deliveries = <<>>
  /\ queue = EmptyBag
  /\ wstate = Idle
  /\ enqueued = {}
  /\ httpCalls = [d \in DeliveryIds |-> 0]
  /\ faults = 0

NextWebhook ==
  \/ EnqueueWebhook
  \/ Redeliver
  \/ Receive
  \/ DeliverFetch
  \/ DeliverSuccess
  \/ DeliverHttpError
  \/ DeliverCatch
  \/ ScheduleRetry
  \/ Ack
  \/ Nack


(***************************************************************************)
(* middleware/rate-limit.ts                                                *)
(***************************************************************************)
RATE_LIMIT_WINDOW == 60 * 1000

DEFAULT_RATE_LIMIT == 10

STRICT_RATE_LIMIT == 5

RATE_LIMIT_TTL == 120 * 1000

RATE_LIMIT_PREFIX == "rate:"

\* The limits a middleware is built with: the two exported variants and the
\* smallest limit.
Limits == {1, STRICT_RATE_LIMIT, DEFAULT_RATE_LIMIT}

Ips == {"203.0.113.7"}

\* The CF-Connecting-IP header ("" when the request has none) and the
\* entries of X-Forwarded-For (<<>> when the request has none).
ClientIps == [cf : Ips \cup {""}, xff : {<<>>, <<" ">>} \cup {<<ip>> : ip \in Ips}]

Targets == {"a@b.com"}

RlSlots == 1..MaxRlSlots

TimeSteps == {1, RATE_LIMIT_WINDOW}

NoData == [count |-> 0, window |-> -1, expiresAt |-> -1]

getRateLimitKey(ip, formId) == <<RATE_LIMIT_PREFIX, ip, formId>>

RateKeys == {getRateLimitKey(ip, t) : ip \in Ips, t \in Targets}

\* kv.get(key, "json"): null once the entry's TTL has run out
KvGetRate(kv, key, t) ==
  IF key \in DOMAIN kv /\ kv[key].expiresAt > t THEN kv[key] ELSE NoData

\* kv.put(key, value, {expirationTtl: 120})
KvPutRate_countLost(kv, key, count, window, t) ==
  (key :> [count |-> 1, window |-> window, expiresAt |-> t + RATE_LIMIT_TTL]) @@ kv

KvPutRate(kv, key, count, window, t) ==
  (key :> [count |-> count, window |-> window, expiresAt |-> t + RATE_LIMIT_TTL]) @@ kv

\* checkRateLimit after the read: the result and the value to write, if any.
\* now is the time taken before the read, data the value read.
checkRateLimit_expiresEarly(data, now, limit) ==
  IF data = NoData \/ data.window <= now - RATE_LIMIT_WINDOW
    THEN [allowed |-> TRUE, remaining |-> limit - 1, reset |-> now + RATE_LIMIT_WINDOW,
          put |-> TRUE, count |-> 1, window |-> now]
    ELSE IF data.count >= limit
      THEN [allowed |-> FALSE, remaining |-> 0, reset |-> data.window + RATE_LIMIT_WINDOW,
            put |-> FALSE, count |-> data.count, window |-> data.window]
      ELSE [allowed |-> TRUE, remaining |-> limit - data.count - 1,
            reset |-> data.window + RATE_LIMIT_WINDOW,
            put |-> TRUE, count |-> data.count + 1, window |-> data.window]

checkRateLimit_countsDenied(data, now, limit) ==
  IF data = NoData \/ data.window < now - RATE_LIMIT_WINDOW
    THEN [allowed |-> TRUE, remaining |-> limit - 1, reset |-> now + RATE_LIMIT_WINDOW,
          put |-> TRUE, count |-> 1, window |-> now]
    ELSE IF data.count >= limit
      THEN [allowed |-> FALSE, remaining |-> 0, reset |-> data.window + RATE_LIMIT_WINDOW,
            put |-> TRUE, count |-> data.count + 1, window |-> data.window]
      ELSE [allowed |-> TRUE, remaining |-> limit - data.count - 1,
            reset |-> data.window + RATE_LIMIT_WINDOW,
            put |-> TRUE, count |-> data.count + 1, window |-> data.window]

checkRateLimit_offByOne(data, now, limit) ==
  IF data = NoData \/ data.window < now - RATE_LIMIT_WINDOW
    THEN [allowed |-> TRUE, remaining |-> limit - 1, reset |-> now + RATE_LIMIT_WINDOW,
          put |-> TRUE, count |-> 1, window |-> now]
    ELSE IF data.count > limit
      THEN [allowed |-> FALSE, remaining |-> 0, reset |-> data.window + RATE_LIMIT_WINDOW,
            put |-> FALSE, count |-> data.count, window |-> data.window]
      ELSE [allowed |-> TRUE, remaining |-> limit - data.count - 1,
            reset |-> data.window + RATE_LIMIT_WINDOW,
            put |-> TRUE, count |-> data.count + 1, window |-> data.window]

checkRateLimit(data, now, limit) ==
  IF data = NoData \/ data.window < now - RATE_LIMIT_WINDOW
    THEN [allowed |-> TRUE, remaining |-> limit - 1, reset |-> now + RATE_LIMIT_WINDOW,
          put |-> TRUE, count |-> 1, window |-> now]
    ELSE IF data.count >= limit
      THEN [allowed |-> FALSE, remaining |-> 0, reset |-> data.window + RATE_LIMIT_WINDOW,
            put |-> FALSE, count |-> data.count, window |-> data.window]
      ELSE [allowed |-> TRUE, remaining |-> limit - data.count - 1,
            reset |-> data.window + RATE_LIMIT_WINDOW,
            put |-> TRUE, count |-> data.count + 1, window |-> data.window]

RlIdle == [pc |-> "idle", ip |-> "unknown", target |-> "", now |-> 0, data |-> NoData,
           overlapped |-> FALSE, headerless |-> FALSE]

NoResult == [status |-> "none", allowed |-> FALSE, remaining |-> 0, reset |-> 0,
             key |-> <<>>, now |-> 0, seq |-> 0, headerless |-> FALSE]

\* The client IP of rateLimitMiddleware: CF-Connecting-IP, else the first
\* entry of X-Forwarded-For trimmed (the entries of the model: an address
\* without blanks, or a blank), else "unknown".
clientIp_sharedAddress(cf, xff) ==
  IF cf # "" THEN cf
  ELSE IF xff # <<>> /\ xff[1] \notin {"", " "} THEN xff[1]
  ELSE "203.0.113.7"

clientIp(cf, xff) ==
  IF cf # "" THEN cf
  ELSE IF xff # <<>> /\ xff[1] \notin {"", " "} THEN xff[1]
  ELSE "unknown"

\* The window a request at time now falls in, kept beside the limiter: a
\* window opens with the first request and covers the 60 seconds after it.
InWindow(key, now) == winStart[key] >= 0 /\ now - winStart[key] <= RATE_LIMIT_WINDOW

SeqOf(key, now) == IF InWindow(key, now) THEN winCount[key] + 1 ELSE 1

\* rateLimitMiddleware up to the end of kv.get: a request without a client
\* IP skips the limiter.
RateLimitBegin(r) ==
  /\ rl[r].pc = "idle"
  /\ checks < MaxChecks
  /\ checks' = checks + 1
  /\ \E h \in ClientIps, t \in Targets :
       LET ip == clientIp(h.cf, h.xff)
           headerless == h.cf = "" /\ h.xff = <<>>
       IN
       IF ip = "unknown"
         THEN /\ rlResult' = [NoResult EXCEPT !.status = "next", !.headerless = headerless]
              /\ passed' = passed + 1
              /\ UNCHANGED rl
         ELSE /\ rl' = [q \in RlSlots |->
                         IF q = r
                           THEN [pc |-> "read", ip |-> ip, target |-> t, now |-> clock,
                                 data |-> KvGetRate(kvRate, getRateLimitKey(ip, t), clock),
                                 overlapped |-> \E o \in RlSlots : rl[o].pc = "read",
                                 headerless |-> headerless]
                           ELSE IF rl[q].pc = "read"
                             THEN [rl[q] EXCEPT !.overlapped = TRUE]
                             ELSE rl[q]]
              /\ UNCHANGED <<rlResult, passed>>
  /\ UNCHANGED <<clock, ticks, rateLimit, kvRate, winStart, winCount, winRace>>
  /\ UNCHANGED <<webhookVars, intakeVars, pureVars>>

RateLimitEnd_deniedExtends(r) ==
  /\ rl[r].pc = "read"
  /\ LET key == getRateLimitKey(rl[r].ip, rl[r].target)
         res == checkRateLimit(rl[r].data, rl[r].now, rateLimit)
     IN /\ kvRate' = IF res.put
                       THEN KvPutRate(kvRate, key, res.count, res.window, clock)
                       ELSE KvPutRate(kvRate, key, res.count, rl[r].now, clock)
        /\ rlResult' =
                          [status |-> IF res.allowed THEN "next" ELSE "429",
                           allowed |-> res.allowed, remaining |-> res.remaining,
                           reset |-> res.reset, key |-> key, now |-> rl[r].now,
                           seq |-> SeqOf(key, rl[r].now), headerless |-> rl[r].headerless]
        /\ winStart' = [winStart EXCEPT ![key] = IF InWindow(key, rl[r].now) THEN @ ELSE rl[r].now]
        /\ winCount' = [winCount EXCEPT ![key] = SeqOf(key, rl[r].now)]
        /\ passed' = IF res.allowed THEN passed + 1 ELSE passed
        /\ winRace' = [winRace EXCEPT ![key] =
                         LET old == IF res.window \in DOMAIN @ THEN @[res.window]
                                    ELSE [admitted |-> 0, overlapped |-> 0]
                         IN (res.window :>
                               [admitted |-> old.admitted + (IF res.allowed THEN 1 ELSE 0),
                                overlapped |-> old.overlapped
                                                 + (IF rl[r].overlapped THEN 1 ELSE 0)]) @@ @]
  /\ rl' = [rl EXCEPT ![r] = RlIdle]
  /\ UNCHANGED <<clock, ticks, rateLimit, checks>>
  /\ UNCHANGED <<webhookVars, intakeVars, pureVars>>

RateLimitEnd_nextAnyway(r) ==
  /\ rl[r].pc = "read"
  /\ LET key == getRateLimitKey(rl[r].ip, rl[r].target)
         res == checkRateLimit(rl[r].data, rl[r].now, rateLimit)
     IN /\ kvRate' = IF res.put
                       THEN KvPutRate(kvRate, key, res.count, res.window, clock)
                       ELSE kvRate
        /\ rlResult' =
                          [status |-> IF res.allowed THEN "next" ELSE "429",
                           allowed |-> res.allowed, remaining |-> res.remaining,
                           reset |-> res.reset, key |-> key, now |-> rl[r].now,
                           seq |-> SeqOf(key, rl[r].now), headerless |-> rl[r].headerless]
        /\ winStart' = [winStart EXCEPT ![key] = IF InWindow(key, rl[r].now) THEN @ ELSE rl[r].now]
        /\ winCount' = [winCount EXCEPT ![key] = SeqOf(key, rl[r].now)]
        /\ passed' = passed + 1
        /\ winRace' = [winRace EXCEPT ![key] =
                         LET old == IF res.window \in DOMAIN @ THEN @[res.window]
                                    ELSE [admitted |-> 0, overlapped |-> 0]
                         IN (res.window :>
                               [admitted |-> old.admitted + (IF res.allowed THEN 1 ELSE 0),
                                overlapped |-> old.overlapped
                                                 + (IF rl[r].overlapped THEN 1 ELSE 0)]) @@ @]
  /\ rl' = [rl EXCEPT ![r] = RlIdle]
  /\ UNCHANGED <<clock, ticks, rateLimit, checks>>
  /\ UNCHANGED <<webhookVars, intakeVars, pureVars>>

\* checkRateLimit from the read on, and the response of the middleware.
RateLimitEnd(r) ==
  /\ rl[r].pc = "read"
  /\ LET key == getRateLimitKey(rl[r].ip, rl[r].target)
         res == checkRateLimit(rl[r].data, rl[r].now, rateLimit)
     IN /\ kvRate' = IF res.put
                       THEN KvPutRate(kvRate, key, res.count, res.window, clock)
                       ELSE kvRate
        /\ rlResult' =
                          [status |-> IF res.allowed THEN "next" ELSE "429",
                           allowed |-> res.allowed, remaining |-> res.remaining,
                           reset |-> res.reset, key |-> key, now |-> rl[r].now,
                           seq |-> SeqOf(key, rl[r].now), headerless |-> rl[r].headerless]
        /\ winStart' = [winStart EXCEPT ![key] = IF InWindow(key, rl[r].now) THEN @ ELSE rl[r].now]
        /\ winCount' = [winCount EXCEPT ![key] = SeqOf(key, rl[r].now)]
        /\ passed' = IF res.allowed THEN passed + 1 ELSE passed
        /\ winRace' = [winRace EXCEPT ![key] =
                         LET old == IF res.window \in DOMAIN @ THEN @[res.window]
                                    ELSE [admitted |-> 0, overlapped |-> 0]
                         IN (res.window :>
                               [admitted |-> old.admitted + (IF res.allowed THEN 1 ELSE 0),
                                overlapped |-> old.overlapped
                                                 + (IF rl[r].overlapped THEN 1 ELSE 0)]) @@ @]
  /\ rl' = [rl EXCEPT ![r] = RlIdle]
  /\ UNCHANGED <<clock, ticks, rateLimit, checks>>
  /\ UNCHANGED <<webhookVars, intakeVars, pureVars>>

\* Time passes.
Tick ==
  /\ ticks < MaxTicks
  /\ \E dt \in TimeSteps : clock' = clock + dt
  /\ ticks' = ticks + 1
  /\ UNCHANGED <<rateLimit, kvRate, rl, rlResult, winStart, winCount, winRace, checks, passed>>
  /\ UNCHANGED <<webhookVars, intakeVars, pureVars>>

\* One request at a time: a check starts only when no other is in flight.
SequentialBegin(r) ==
  /\ \A q \in RlSlots : rl[q].pc = "idle"
  /\ RateLimitBegin(r)

InitRate ==
  /\ clock = 0
  /\ ticks = 0
  /\ kvRate = <<>>
  /\ rl = [r \in RlSlots |-> RlIdle]
  /\ rlResult = NoResult
  /\ winStart = [k \in RateKeys |-> -1]
  /\ winCount = [k \in RateKeys |-> 0]
  /\ winRace = [k \in RateKeys |-> <<>>]
  /\ checks = 0
  /\ passed = 0

NextRateSeq ==
  \/ \E r \in RlSlots : SequentialBegin(r)
  \/ \E r \in RlSlots : RateLimitEnd(r)
  \/ Tick

\* Requests handled concurrently: a check may start while others are
\* between kv.get and kv.put. The slots are interchangeable: a new check
\* takes the first free one.
NextRateRace ==
  \/ \E r \in RlSlots :
       /\ checks < MaxRaceChecks
       /\ \A q \in 1..(r - 1) : rl[q].pc # "idle"
       /\ RateLimitBegin(r)
  \/ \E r \in RlSlots : RateLimitEnd(r)
  \/ ticks < MaxRaceTicks /\ Tick

(***************************************************************************)
(* utils/parse-form.ts                                                     *)
(***************************************************************************)
\* A raw request value: absent, a string, or the list kept for a repeated
\* key (or a JSON array); v is the text, for a list the text of its element.
\* A longer text is given by the words it is made of.
Absent == [t |-> "absent", v |-> "", words |-> <<>>]

Str(s) == [t |-> "string", v |-> s, words |-> <<>>]

List(s) == [t |-> "list", v |-> s, words |-> <<>>]

Text(ws) == [t |-> "string", v |-> IF ws = <<>> THEN "" ELSE "text", words |-> ws]

\* String(value)
String(val) == val.v

\* value.trim(), over the texts "", " " and "x"
Trim(s) == IF s = " " THEN "" ELSE s

\* JavaScript truthiness of an optional string
Truthy(val) == val.t # "absent" /\ val.v # ""

\* specialFields.<key> = String(value), when the key is present
Special(val) == IF val.t = "absent" THEN Absent ELSE [Str(String(val)) EXCEPT !.words = val.words]

\* extractSpecialFields: underscore keys go to specialFields when they are
\* recognised and are dropped otherwise (_honey); other keys are fields.
extractSpecialFields(rawData) ==
  [fields |-> [website |-> rawData.website, name |-> rawData.name, message |-> rawData.message],
   links |-> rawData.links,
   specialFields |->
     [_honeypot |-> Special(rawData._honeypot),
      _blacklist |-> Special(rawData._blacklist),
      _gotcha |-> Special(rawData._gotcha),
      _webhook |-> Special(rawData._webhook),
      _captcha |-> Special(rawData._captcha),
      _next |-> Special(rawData._next)]]

(***************************************************************************)
(* services/spam.ts                                                        *)
(***************************************************************************)
HONEYPOT_FIELDS == {"_honeypot", "_gotcha", "honeypot", "hp", "website", "url", "fax"}

checkHoneypot(formData) ==
  \/ Truthy(formData.specialFields._honeypot)
  \/ Truthy(formData.specialFields._gotcha)
  \/ \E field \in HONEYPOT_FIELDS \cap DOMAIN formData.fields :
       LET value == formData.fields[field]
       IN Truthy(value) /\ value.t = "string" /\ Trim(value.v) # ""

quickSpamCheck(formData) == checkHoneypot(formData)

Min_second(a, b) == b

Min(a, b) == IF a <= b THEN a ELSE b

\* verifyRecaptcha: scores are in hundredths; reply is the answer of the
\* siteverify endpoint, with error set when the call throws.
verifyRecaptcha(secretKey, reply) ==
  IF ~secretKey THEN [success |-> TRUE, score |-> 100]
  ELSE IF reply.error THEN [success |-> FALSE, score |-> 0]
  ELSE [success |-> reply.success, score |-> reply.score]

RecaptchaError == [error |-> TRUE, success |-> FALSE, score |-> 0]

RecaptchaReplies ==
  {RecaptchaError} \cup [error : {FALSE}, success : BOOLEAN, score : {0, 30, 90}]

DEFAULT_BLACKLIST ==
  <<"viagra", "casino", "lottery", "prince nigeria", "wire transfer",
    "bitcoin investment", "crypto doubling">>

\* value.toLowerCase() and s.trim().toLowerCase(), over the words of the model
ToLower(w) == IF w = "VIAGRA" THEN "viagra" ELSE w

TrimLower(w) == IF w = " Hello" THEN "hello" ELSE IF w = " " THEN "" ELSE ToLower(w)

\* lowerValue.includes(phrase): the empty phrase is part of every string
Includes(value, phrase) ==
  phrase = "" \/ \E i \in DOMAIN value.words : ToLower(value.words[i]) = phrase

\* the phrases checked: the default ones, then the entries of the
\* comma-separated _blacklist
Blacklist(customBlacklist) ==
  IF Truthy(customBlacklist)
    THEN DEFAULT_BLACKLIST \o [i \in DOMAIN customBlacklist.words |-> TrimLower(customBlacklist.words[i])]
    ELSE DEFAULT_BLACKLIST

\* matches.push(phrase), once for each string field and each entry of the
\* blacklist the field includes
Pushes(formData, customBlacklist) ==
  {<<field, i>> \in (DOMAIN formData.fields) \X (DOMAIN Blacklist(customBlacklist)) :
     /\ formData.fields[field].t = "string"
     /\ Includes(formData.fields[field], Blacklist(customBlacklist)[i])}

\* checkBlacklist: the matched phrases, deduplicated
checkBlacklist_noDedupe(formData, customBlacklist) ==
  Pushes(formData, customBlacklist)

checkBlacklist(formData, customBlacklist) ==
  {Blacklist(customBlacklist)[push[2]] : push \in Pushes(formData, customBlacklist)}

\* checkSpam, with the thresholds and scores in hundredths
checkSpam(secretKey, formData, reply, recaptchaThreshold) ==
  LET honeypot == IF checkHoneypot(formData) THEN 80 ELSE 0
      blacklistMatches == checkBlacklist(formData, formData.specialFields._blacklist)
      blacklist == IF Cardinality(blacklistMatches) > 0
                     THEN 20 * Min(Cardinality(blacklistMatches), 3) ELSE 0
      recaptcha == verifyRecaptcha(secretKey, reply)
      captcha == IF Truthy(formData.specialFields._captcha)
                   THEN IF ~recaptcha.success THEN 50
                        ELSE IF recaptcha.score < recaptchaThreshold
                          THEN recaptchaThreshold - recaptcha.score
                          ELSE 0
                   ELSE 0
      links == IF formData.links > 3 THEN 10 * Min(formData.links - 3, 5) ELSE 0
      score == Min(100, honeypot + blacklist + captcha + links)
      reasons == {reason \in {"honeypot_triggered", "blacklist", "recaptcha_failed",
                              "recaptcha_low_score", "too_many_links"} :
                    \/ reason = "honeypot_triggered" /\ honeypot > 0
                    \/ reason = "blacklist" /\ blacklist > 0
                    \/ reason = "recaptcha_failed" /\ captcha > 0 /\ ~recaptcha.success
                    \/ reason = "recaptcha_low_score" /\ captcha > 0 /\ recaptcha.success
                    \/ reason = "too_many_links" /\ links > 0}
  IN [isSpam |-> score >= 50, score |-> score, reasons |-> reasons,
      \* whether the siteverify endpoint was called
      siteverify |-> Truthy(formData.specialFields._captcha) /\ secretKey]

(***************************************************************************)
(* Requests: POST /:target (routes/submit.ts), GET /verify/:token          *)
(* (routes/verify.ts), with services/form.ts, services/verification.ts and *)
(* services/email.ts.                                                      *)
(***************************************************************************)
Emails == {"a@b.com"}

ReqSlots == 1..MaxInflight

Tokens == 1..MaxSubmits

\* the :token path parameter; 0 is a string that was never issued
TokenStrings == 0..MaxSubmits

\* the :target path parameter of a submission
SubmitTargets == [kind : {"email", "hash"}, email : Emails] \cup {[kind |-> "none", email |-> ""]}

Clean ==
  [_honeypot |-> Absent, _gotcha |-> Absent, _honey |-> Absent, website |-> Absent,
   _webhook |-> Absent, _captcha |-> Absent, _next |-> Absent, _blacklist |-> Absent,
   name |-> Absent, message |-> Absent, links |-> 0, ajax |-> FALSE]

\* The request bodies submitted in the model.
FormInputs ==
  {Clean,
   [Clean EXCEPT !._honeypot = Str("x")],
   [Clean EXCEPT !.website = Str(" ")],
   [Clean EXCEPT !.website = List("x")],
   [Clean EXCEPT !.message = Text(<<"viagra", "casino", "lottery">>)],
   [Clean EXCEPT !._webhook = Str("https://hook")],
   [Clean EXCEPT !._next = Str("https://next"), !.ajax = TRUE]}

\* validateRedirectUrl(url) # null, over the URLs of the model
validateRedirectUrl(url) == url = "https://next"

\* getDefaultSettings().recaptcha_threshold, in hundredths
DEFAULT_RECAPTCHA_THRESHOLD == 50

NoForm == [exists |-> FALSE, email |-> "", verified |-> FALSE, webhook_url |-> FALSE]

NoRaw == [Clean EXCEPT !.links = -1]

ReqIdle ==
  [pc |-> "idle", kind |-> "none", target |-> [kind |-> "none", email |-> ""],
   raw |-> NoRaw, form |-> NoForm, sub |-> 0, token |-> 0, delivery |-> 0]

\* the Form object a handler holds after reading the forms table
FormObject(e) ==
  [exists |-> TRUE, email |-> e, verified |-> forms[e].verified,
   webhook_url |-> forms[e].webhook_url]

\* isFormVerified
isFormVerified_always(form) == TRUE

isFormVerified(form) == form.verified

NoDone ==
  [kind |-> "none", target |-> [kind |-> "none", email |-> ""], raw |-> NoRaw,
   sub |-> 0, token |-> 0, delivery |-> 0, response |-> "none"]

\* The response is sent: the slot is free again.
Respond(r, response) ==
  /\ req' = [req EXCEPT ![r] = ReqIdle]
  /\ done' = [kind |-> req[r].kind, target |-> req[r].target, raw |-> req[r].raw,
              sub |-> req[r].sub, token |-> req[r].token,
              delivery |-> req[r].delivery, response |-> response]

\* The same, for a step that has just set some of the request's fields.
RespondWith(r, request, response) ==
  /\ req' = [req EXCEPT ![r] = ReqIdle]
  /\ done' = [kind |-> request.kind, target |-> request.target, raw |-> request.raw,
              sub |-> request.sub, token |-> request.token,
              delivery |-> request.delivery, response |-> response]

\* errorMiddleware: the status answered for an exception of the handler
errorMiddleware_swallowed(error) == "thank_you"

errorMiddleware(error) == IF error = "NotFoundError" THEN "404" ELSE "500"

\* sendEmail: without BREVO_API_KEY the message is dropped with a warning
sendEmail(message) ==
  emails' = IF env.BREVO_API_KEY THEN emails \cup {message} ELSE emails

\* submit.ts lines 108-132: redirect, JSON or thank-you page
FinalResponse(raw) ==
  IF Truthy(Special(raw._next)) /\ validateRedirectUrl(String(raw._next)) THEN "redirect"
  ELSE IF raw.ajax THEN "accepted_json"
  ELSE "thank_you"

NoneInFlight == \A q \in ReqSlots : req[q].pc = "idle"

\* POST /:target arrives: parseFormData and the honeypot quick check.
SubmitStartFrom(r, inputs) ==
  /\ req[r].pc = "idle"
  /\ nreq < MaxSubmits
  /\ nreq' = nreq + 1
  /\ \E target \in SubmitTargets, raw \in inputs :
       LET request == [ReqIdle EXCEPT !.kind = "submit", !.target = target, !.raw = raw] IN
       IF quickSpamCheck(extractSpecialFields(raw))
         THEN RespondWith(r, request, "success_json")
         ELSE /\ req' = [req EXCEPT ![r] = [request EXCEPT !.pc = "resolve"]]
              /\ UNCHANGED done
  /\ UNCHANGED <<env, forms, submissions, kvVerify, kvVerifyEmail, emails, issued, consumed>>
  /\ UNCHANGED <<webhookVars, rateVars, pureVars>>

SubmitStart(r) == SubmitStartFrom(r, FormInputs)

\* resolveForm: getFormByHash for a hash, getFormByEmail for an email
SubmitResolve(r) ==
  /\ req[r].pc = "resolve"
  /\ LET target == req[r].target IN
     IF target.kind # "none" /\ target.email \in DOMAIN forms
       THEN /\ req' = [req EXCEPT ![r].pc = "store", ![r].form = FormObject(target.email)]
            /\ UNCHANGED done
       ELSE IF target.kind = "email"
         THEN /\ req' = [req EXCEPT ![r].pc = "create"]
              /\ UNCHANGED done
         ELSE Respond(r, errorMiddleware("NotFoundError"))
  /\ UNCHANGED <<env, forms, submissions, kvVerify, kvVerifyEmail, emails, nreq, issued, consumed>>
  /\ UNCHANGED <<webhookVars, rateVars, pureVars>>

\* getOrCreateForm: INSERT INTO forms; email_hash is UNIQUE, so the insert
\* throws when another request has created the form in the meantime.
SubmitCreateForm_upsert(r) ==
  /\ req[r].pc = "create"
  /\ LET e == req[r].target.email IN
       /\ forms' = [x \in DOMAIN forms \cup {e} |-> [verified |-> FALSE, webhook_url |-> FALSE]]
       /\ req' = [req EXCEPT ![r].pc = "store",
                             ![r].form = [exists |-> TRUE, email |-> e, verified |-> FALSE,
                                          webhook_url |-> FALSE]]
       /\ UNCHANGED done
  /\ UNCHANGED <<env, submissions, kvVerify, kvVerifyEmail, emails, nreq, issued, consumed>>
  /\ UNCHANGED <<webhookVars, rateVars, pureVars>>

SubmitCreateForm(r) ==
  /\ req[r].pc = "create"
  /\ LET e == req[r].target.email IN
     IF e \in DOMAIN forms
       THEN /\ Respond(r, errorMiddleware("Error"))
            /\ UNCHANGED forms
       ELSE /\ forms' = (e :> [verified |-> FALSE, webhook_url |-> FALSE]) @@ forms
            /\ req' = [req EXCEPT ![r].pc = "store",
                                  ![r].form = [exists |-> TRUE, email |-> e, verified |-> FALSE,
                                               webhook_url |-> FALSE]]
            /\ UNCHANGED done
  /\ UNCHANGED <<env, submissions, kvVerify, kvVerifyEmail, emails, nreq, issued, consumed>>
  /\ UNCHANGED <<webhookVars, rateVars, pureVars>>

\* submit.ts lines 72-92: where the handler goes once the submission is
\* stored: the generic success body for spam, the token path for an
\* unverified form, the notification otherwise
AfterStore_spamProcessed(spamResult, form) ==
  IF isFormVerified(form) THEN "notify" ELSE "token"

AfterStore(spamResult, form) ==
  IF spamResult.isSpam THEN "success_json"
  ELSE IF isFormVerified(form) THEN "notify" ELSE "token"

\* checkSpam and createSubmission, then the branch on spam / unverified / verified
SubmitStore(r) ==
  /\ req[r].pc = "store"
  /\ \E reply \in IF Truthy(Special(req[r].raw._captcha)) /\ env.RECAPTCHA_SECRET_KEY
                    THEN RecaptchaReplies ELSE {RecaptchaError} :
       LET formData == extractSpecialFields(req[r].raw)
           spamResult == checkSpam(env.RECAPTCHA_SECRET_KEY, formData, reply, DEFAULT_RECAPTCHA_THRESHOLD)
           id == Cardinality(DOMAIN submissions) + 1
           request == [req[r] EXCEPT !.sub = id]
           branch == AfterStore(spamResult, req[r].form)
       IN /\ submissions' = (id :> [form |-> req[r].form.email, is_spam |-> spamResult.isSpam,
                                    spam_score |-> spamResult.score]) @@ submissions
          /\ IF branch = "success_json"
               THEN RespondWith(r, request, "success_json")
               ELSE /\ req' = [req EXCEPT ![r] = [request EXCEPT !.pc = branch]]
                    /\ UNCHANGED done
  /\ UNCHANGED <<env, forms, kvVerify, kvVerifyEmail, emails, nreq, issued, consumed>>
  /\ UNCHANGED <<webhookVars, rateVars, pureVars>>

\* createVerificationToken, first put: "verify:<token>" -> data
SubmitToken(r) ==
  /\ req[r].pc = "token"
  /\ \E token \in Tokens \ DOMAIN issued :
       /\ \A t \in Tokens \ DOMAIN issued : token <= t
       /\ kvVerify' = (token :> [email |-> req[r].form.email, submission_id |-> req[r].sub]) @@ kvVerify
       /\ issued' = (token :> [email |-> req[r].form.email, submission_id |-> req[r].sub]) @@ issued
       /\ req' = [req EXCEPT ![r].pc = "token_email", ![r].token = token]
  /\ UNCHANGED <<env, forms, submissions, kvVerifyEmail, emails, done, nreq, consumed>>
  /\ UNCHANGED <<webhookVars, rateVars, pureVars>>

\* createVerificationToken, second put: "verify:email:<email>" -> token
SubmitTokenEmail(r) ==
  /\ req[r].pc = "token_email"
  /\ kvVerifyEmail' = (req[r].form.email :> req[r].token) @@ kvVerifyEmail
  /\ req' = [req EXCEPT ![r].pc = "verify_email"]
  /\ UNCHANGED <<env, forms, submissions, kvVerify, emails, done, nreq, issued, consumed>>
  /\ UNCHANGED <<webhookVars, rateVars, pureVars>>

\* sendVerificationEmail, then the verification-pending page
SubmitVerificationEmail(r) ==
  /\ req[r].pc = "verify_email"
  /\ sendEmail([kind |-> "verification", to |-> req[r].form.email, ref |-> req[r].token])
  /\ Respond(r, "verification_pending")
  /\ UNCHANGED <<env, forms, submissions, kvVerify, kvVerifyEmail, nreq, issued, consumed>>
  /\ UNCHANGED <<webhookVars, rateVars, pureVars>>

\* sendSubmissionEmail, then the branch on a webhook URL
SubmitNotify(r) ==
  /\ req[r].pc = "notify"
  /\ sendEmail([kind |-> "notification", to |-> req[r].form.email, ref |-> req[r].sub])
  /\ IF Truthy(Special(req[r].raw._webhook)) \/ req[r].form.webhook_url
       THEN /\ req' = [req EXCEPT ![r].pc = "webhook_insert"]
            /\ UNCHANGED done
       ELSE Respond(r, FinalResponse(req[r].raw))
  /\ UNCHANGED <<env, forms, submissions, kvVerify, kvVerifyEmail, nreq, issued, consumed>>
  /\ UNCHANGED <<webhookVars, rateVars, pureVars>>

\* queueWebhookDelivery: INSERT INTO webhook_deliveries
SubmitWebhookInsert(r) ==
  /\ req[r].pc = "webhook_insert"
  /\ \E id \in DeliveryIds \ DOMAIN deliveries :
       /\ \A j \in DeliveryIds \ DOMAIN deliveries : id <= j
       /\ deliveries' = createWebhookDelivery(deliveries, id, NewDelivery(req[r].sub))
       /\ req' = [req EXCEPT ![r].pc = "webhook_send", ![r].delivery = id]
  /\ UNCHANGED <<queue, wstate, enqueued, httpCalls, faults>>
  /\ UNCHANGED <<env, forms, submissions, kvVerify, kvVerifyEmail, emails, done, nreq, issued, consumed>>
  /\ UNCHANGED <<rateVars, pureVars>>

\* queueWebhookDelivery: WEBHOOK_QUEUE.send, then the response
SubmitWebhookSend(r) ==
  /\ req[r].pc = "webhook_send"
  /\ QueueSend(FirstMessage(req[r].delivery))
  /\ Respond(r, FinalResponse(req[r].raw))
  /\ UNCHANGED <<deliveries, wstate, httpCalls, faults>>
  /\ UNCHANGED <<env, forms, submissions, kvVerify, kvVerifyEmail, emails, nreq, issued, consumed>>
  /\ UNCHANGED <<rateVars, pureVars>>

\* An awaited call to the database, the KV store, the mail provider or the
\* queue throws: errorMiddleware answers with a server error.
AwaitPcs ==
  {"resolve", "create", "store", "token", "token_email", "verify_email", "notify",
   "webhook_insert", "webhook_send", "v_resolve", "v_mark", "v_delete"}

HandlerThrows(r) ==
  /\ req[r].pc \in AwaitPcs
  /\ faults < MaxFaults
  /\ faults' = faults + 1
  /\ Respond(r, errorMiddleware("Error"))
  /\ UNCHANGED <<deliveries, queue, wstate, enqueued, httpCalls>>
  /\ UNCHANGED <<env, forms, submissions, kvVerify, kvVerifyEmail, emails, nreq, issued, consumed>>
  /\ UNCHANGED <<rateVars, pureVars>>

\* verifyToken: kv.get("verify:<token>")
NoVerificationData == [email |-> "", submission_id |-> 0]

verifyToken_anyEntry(kv, token) ==
  IF token \in DOMAIN kv THEN [found |-> TRUE, data |-> kv[token]]
  ELSE IF DOMAIN kv # {}
    THEN [found |-> TRUE, data |-> kv[CHOOSE t \in DOMAIN kv : TRUE]]
    ELSE [found |-> FALSE, data |-> NoVerificationData]

verifyToken(kv, token) ==
  IF token \in DOMAIN kv THEN [found |-> TRUE, data |-> kv[token]]
  ELSE [found |-> FALSE, data |-> NoVerificationData]

\* deleteVerificationToken: both keys are deleted
deleteVerificationToken_pointerOnly(kv, kvEmail, token, email) ==
  [forward |-> kv,
   reverse |-> [e \in DOMAIN kvEmail \ {email} |-> kvEmail[e]]]

deleteVerificationToken(kv, kvEmail, token, email) ==
  [forward |-> [t \in DOMAIN kv \ {token} |-> kv[t]],
   reverse |-> [e \in DOMAIN kvEmail \ {email} |-> kvEmail[e]]]

\* GET /verify/:token arrives: verifyToken
VerifyStart(r) ==
  /\ req[r].pc = "idle"
  /\ \E token \in TokenStrings :
       LET data == verifyToken(kvVerify, token).data
           found == verifyToken(kvVerify, token).found
           request == [ReqIdle EXCEPT !.kind = "verify", !.token = token,
                                      !.target = [kind |-> "email", email |-> data.email]]
       IN IF ~found
            THEN RespondWith(r, request, "link_expired")
            ELSE /\ req' = [req EXCEPT ![r] = [request EXCEPT !.pc = "v_resolve"]]
                 /\ UNCHANGED done
  /\ UNCHANGED <<env, forms, submissions, kvVerify, kvVerifyEmail, emails, nreq, issued, consumed>>
  /\ UNCHANGED <<webhookVars, rateVars, pureVars>>

\* resolveForm(data.email): the form of the email, created if it is missing
VerifyResolve(r) ==
  /\ req[r].pc = "v_resolve"
  /\ LET e == req[r].target.email IN
     /\ forms' = IF e \in DOMAIN forms THEN forms
                 ELSE (e :> [verified |-> FALSE, webhook_url |-> FALSE]) @@ forms
     /\ req' = [req EXCEPT ![r].pc = "v_mark",
                           ![r].form = IF e \in DOMAIN forms THEN FormObject(e)
                                       ELSE [exists |-> TRUE, email |-> e, verified |-> FALSE,
                                             webhook_url |-> FALSE]]
  /\ UNCHANGED <<env, submissions, kvVerify, kvVerifyEmail, emails, done, nreq, issued, consumed>>
  /\ UNCHANGED <<webhookVars, rateVars, pureVars>>

\* verifyForm: UPDATE forms SET verified_at
VerifyMark_notSet(r) ==
  /\ req[r].pc = "v_mark"
  /\ req' = [req EXCEPT ![r].pc = "v_delete"]
  /\ UNCHANGED <<env, forms, submissions, kvVerify, kvVerifyEmail, emails, done, nreq, issued, consumed>>
  /\ UNCHANGED <<webhookVars, rateVars, pureVars>>

VerifyMark(r) ==
  /\ req[r].pc = "v_mark"
  /\ forms' = [forms EXCEPT ![req[r].form.email].verified = TRUE]
  /\ req' = [req EXCEPT ![r].pc = "v_delete"]
  /\ UNCHANGED <<env, submissions, kvVerify, kvVerifyEmail, emails, done, nreq, issued, consumed>>
  /\ UNCHANGED <<webhookVars, rateVars, pureVars>>

VerifyDelete_replays(r) ==
  /\ req[r].pc = "v_delete"
  /\ LET kv == deleteVerificationToken(kvVerify, kvVerifyEmail, req[r].token, req[r].target.email) IN
     /\ kvVerify' = kv.forward
     /\ kvVerifyEmail' = kv.reverse
  /\ consumed' = consumed \cup {req[r].token}
  /\ sendEmail([kind |-> "notification", to |-> req[r].target.email,
                ref |-> issued[req[r].token].submission_id])
  /\ Respond(r, "verified")
  /\ UNCHANGED <<env, forms, submissions, nreq, issued>>
  /\ UNCHANGED <<webhookVars, rateVars, pureVars>>

\* deleteVerificationToken, then the success page
VerifyDelete(r) ==
  /\ req[r].pc = "v_delete"
  /\ LET kv == deleteVerificationToken(kvVerify, kvVerifyEmail, req[r].token, req[r].target.email) IN
     /\ kvVerify' = kv.forward
     /\ kvVerifyEmail' = kv.reverse
  /\ consumed' = consumed \cup {req[r].token}
  /\ Respond(r, "verified")
  /\ UNCHANGED <<env, forms, submissions, emails, nreq, issued>>
  /\ UNCHANGED <<webhookVars, rateVars, pureVars>>

\* The 24-hour TTL of a token runs out while no request is being handled:
\* its key goes, and the email key written with it unless a later token
\* has overwritten that one.
ExpireToken ==
  /\ \A r \in ReqSlots : req[r].pc = "idle"
  /\ \E token \in DOMAIN kvVerify :
       /\ kvVerify' = [t \in DOMAIN kvVerify \ {token} |-> kvVerify[t]]
       /\ kvVerifyEmail' = [e \in {x \in DOMAIN kvVerifyEmail : kvVerifyEmail[x] # token}
                              |-> kvVerifyEmail[e]]
  /\ UNCHANGED <<env, forms, submissions, emails, req, done, nreq, issued, consumed>>
  /\ UNCHANGED <<webhookVars, rateVars, pureVars>>

\* The owner sets a default webhook URL (updateFormSettings, dashboard or API).
UpdateFormSettings ==
  /\ \E e \in DOMAIN forms :
       /\ ~forms[e].webhook_url
       /\ forms' = [forms EXCEPT ![e].webhook_url = TRUE]
  /\ UNCHANGED <<env, submissions, kvVerify, kvVerifyEmail, emails, req, done, nreq, issued, consumed>>
  /\ UNCHANGED <<webhookVars, rateVars, pureVars>>

EnvConfigs == [BREVO_API_KEY : BOOLEAN, RECAPTCHA_SECRET_KEY : {TRUE}]

InitIntake ==
  /\ forms = <<>>
  /\ submissions = <<>>
  /\ kvVerify = <<>>
  /\ kvVerifyEmail = <<>>
  /\ emails = {}
  /\ req = [r \in ReqSlots |-> ReqIdle]
  /\ done = NoDone
  /\ nreq = 0
  /\ issued = <<>>
  /\ consumed = {}

\* One request at a time: a request arrives when no other is being handled
\* (the slots are interchangeable, so it takes the first).
SequentialSubmit == NoneInFlight /\ SubmitStart(1)

SequentialVerify == NoneInFlight /\ VerifyStart(1)

NextIntake ==
  \/ SequentialSubmit
  \/ \E r \in ReqSlots : SubmitResolve(r)
  \/ \E r \in ReqSlots : SubmitCreateForm(r)
  \/ \E r \in ReqSlots : SubmitStore(r)
  \/ \E r \in ReqSlots : SubmitToken(r)
  \/ \E r \in ReqSlots : SubmitTokenEmail(r)
  \/ \E r \in ReqSlots : SubmitVerificationEmail(r)
  \/ \E r \in ReqSlots : SubmitNotify(r)
  \/ \E r \in ReqSlots : SubmitWebhookInsert(r)
  \/ \E r \in ReqSlots : SubmitWebhookSend(r)
  \/ SequentialVerify
  \/ \E r \in ReqSlots : VerifyResolve(r)
  \/ \E r \in ReqSlots : VerifyMark(r)
  \/ \E r \in ReqSlots : VerifyDelete(r)
  \/ \E r \in ReqSlots : HandlerThrows(r)
  \/ ExpireToken
  \/ UpdateFormSettings

\* POST /:target behind app.use("/:target", rateLimitMiddleware(limit)), one
\* request at a time: the submit handler runs for a request only after the
\* middleware has called next() for it. The forms are not verified, so the
\* handler ends with the verification email. The handler does not read the
\* clock: time passes between its runs.
NextLimited ==
  \/ checks < MaxRaceChecks /\ NoneInFlight /\ nreq = passed /\ SequentialBegin(1)
  \/ RateLimitEnd(1)
  \/ ticks < MaxRaceTicks /\ NoneInFlight /\ Tick
  \/ /\ nreq < passed
     /\ SubmitStartFrom(1, {Clean, [Clean EXCEPT !._honeypot = Str("x")]})
  \/ SubmitResolve(1)
  \/ SubmitCreateForm(1)
  \/ SubmitStore(1)
  \/ SubmitToken(1)
  \/ SubmitTokenEmail(1)
  \/ SubmitVerificationEmail(1)
  \/ HandlerThrows(1)

\* The same Worker, receiving the bodies that fill a spam-trap field.
TrapInputs ==
  {Clean,
   [Clean EXCEPT !._honeypot = Str("x")],
   [Clean EXCEPT !._honeypot = List("x")],
   [Clean EXCEPT !._honey = Str("x")]}

NextTraps ==
  \/ NoneInFlight /\ SubmitStartFrom(1, TrapInputs)
  \/ \E r \in ReqSlots : SubmitResolve(r)
  \/ \E r \in ReqSlots : SubmitCreateForm(r)
  \/ \E r \in ReqSlots : SubmitStore(r)
  \/ \E r \in ReqSlots : SubmitToken(r)
  \/ \E r \in ReqSlots : SubmitTokenEmail(r)
  \/ \E r \in ReqSlots : SubmitVerificationEmail(r)
  \/ \E r \in ReqSlots : SubmitNotify(r)
  \/ \E r \in ReqSlots : SubmitWebhookInsert(r)
  \/ \E r \in ReqSlots : SubmitWebhookSend(r)
  \/ SequentialVerify
  \/ \E r \in ReqSlots : VerifyResolve(r)
  \/ \E r \in ReqSlots : VerifyMark(r)
  \/ \E r \in ReqSlots : VerifyDelete(r)
  \/ \E r \in ReqSlots : HandlerThrows(r)
  \/ ExpireToken
  \/ UpdateFormSettings

NoReturn == [fn |-> "none", out |-> <<>>]

(***************************************************************************)
(* checkSpam evaluated on its own, for every input of a bounded set.       *)
(***************************************************************************)
\* The texts of a field: the first n default phrases, one phrase n times,
\* a phrase in capitals, an innocent word.
Texts ==
  {SubSeq(DEFAULT_BLACKLIST, 1, n) : n \in 0..MaxWords}
    \cup {[i \in 1..n |-> "viagra"] : n \in 1..MaxWords}
    \cup {<<"VIAGRA">>, <<"hello">>}

SpamCalls ==
  [fn : {"checkSpam"},
   message : {Text(ws) : ws \in Texts},
   name : {Absent, Text(<<"viagra">>), Text(<<"hello">>), List("viagra")},
   trap : {"none", "_honeypot", "website"},
   _blacklist : {Absent, Text(<<" Hello">>), Text(<<"VIAGRA", "casino">>), Text(<<"hello", " ">>)},
   links : 0..MaxLinks,
   _captcha : {Absent, Str("token"), Str("false")},
   secretKey : BOOLEAN,
   reply : RecaptchaReplies]

\* the request body of a call
RawOf(c) ==
  [Clean EXCEPT !.message = c.message, !.name = c.name, !._blacklist = c._blacklist,
                !.links = c.links, !._captcha = c._captcha,
                !._honeypot = IF c.trap = "_honeypot" THEN Str("x") ELSE Absent,
                !.website = IF c.trap = "website" THEN Str("x") ELSE Absent]

CheckSpam ==
  /\ call.fn = "checkSpam"
  /\ result = NoReturn
  /\ result' = [fn |-> "checkSpam",
                out |-> checkSpam(call.secretKey, extractSpecialFields(RawOf(call)), call.reply,
                                  DEFAULT_RECAPTCHA_THRESHOLD)]
  /\ UNCHANGED call
  /\ UNCHANGED <<webhookVars, rateVars, intakeVars>>

\* No function is being evaluated on its own.
InitPure ==
  /\ call = [fn |-> "none"]
  /\ result = NoReturn

Configured == [BREVO_API_KEY |-> TRUE, RECAPTCHA_SECRET_KEY |-> TRUE]

\* The deployed Worker: index.ts mounts rateLimitMiddleware(DEFAULT_RATE_LIMIT);
\* the secrets are whatever the deployment has configured.
Init ==
  /\ InitWebhook /\ InitRate /\ InitIntake /\ InitPure
  /\ rateLimit = DEFAULT_RATE_LIMIT
  /\ env \in EnvConfigs

\* The Worker with every secret configured.
InitConfigured ==
  /\ InitWebhook /\ InitRate /\ InitIntake /\ InitPure
  /\ rateLimit = DEFAULT_RATE_LIMIT
  /\ env = Configured

\* A middleware built by rateLimitMiddleware(limit), for each limit.
InitLimiter ==
  /\ InitWebhook /\ InitRate /\ InitIntake /\ InitPure
  /\ rateLimit \in Limits
  /\ env = Configured

\* Middlewares built with the smallest limit and with a limit two
\* concurrent requests can overrun by more than two.
InitRateRace ==
  /\ InitWebhook /\ InitRate /\ InitIntake /\ InitPure
  /\ rateLimit \in {1, 3}
  /\ env = Configured

\* The abuse filter alone, on one of its inputs.
InitFilter ==
  /\ InitWebhook /\ InitRate /\ InitIntake
  /\ rateLimit = DEFAULT_RATE_LIMIT
  /\ env = Configured
  /\ call \in SpamCalls
  /\ result = NoReturn

SpecSpamFilter == InitFilter /\ [][CheckSpam]_vars

(***************************************************************************)
(* Webhook signatures (utils/signature.ts), evaluated on their own.        *)
(***************************************************************************)
\* the default toleranceSeconds of verifyWebhookSignature
DEFAULT_TOLERANCE_SECONDS == 300

\* A number as parseInt and template strings see it: an integer or NaN.
Num(n) == [nan |-> FALSE, n |-> n]

NaN == [nan |-> TRUE, n |-> 0]

\* hmacSha256(message, secret): the digest, one per (message, key) pair;
\* the message `${ts}.${payload}` is given by its two parts.
hmacSha256(message, secret) == [msg |-> message, key |-> secret]

\* a v-value that is no digest of any key in use
GarbageSignature == [msg |-> [ts |-> NaN, payload |-> "garbage"], key |-> "none"]

NoSignature == [msg |-> [ts |-> NaN, payload |-> "undefined"], key |-> "none"]

\* One "key=value" part of a header: the value is given by what parseInt
\* reads from it (int) and by the string itself compared as a signature (sig).
TimestampPart(num) == [key |-> "t", int |-> num, sig |-> NoSignature]

SignaturePart(key, sig) == [key |-> key, int |-> NaN, sig |-> sig]

\* The X-Freeform-Signature header as the receiver has it.
Header(parts) == [present |-> TRUE, parts |-> parts]

\* generateWebhookSignature(payload, secret, timestamp) evaluated at time now:
\* `timestamp || Math.floor(Date.now() / 1000)` replaces a falsy timestamp.
generateWebhookSignature(payload, secret, timestamp, now) ==
  LET ts == IF timestamp # 0 THEN timestamp ELSE now
      signature == hmacSha256([ts |-> Num(ts), payload |-> payload], secret)
  IN Header(<<TimestampPart(Num(ts)), SignaturePart("v1", signature)>>)

RECURSIVE LastTimestamp(_, _)
\* the loop of parseSignatureHeader: the last t part wins, 0 without one
LastTimestamp(parts, timestamp) ==
  IF parts = <<>> THEN timestamp
  ELSE LastTimestamp(Tail(parts),
                     IF Head(parts).key = "t" THEN Head(parts).int ELSE timestamp)

NoParse == [ok |-> FALSE, timestamp |-> Num(0), signatures |-> {}]

\* parseSignatureHeader: null for a header that is not a string (the
\* TypeError is caught), has no t part or t=0, or has no v part
parseSignatureHeader(header) ==
  IF ~header.present THEN NoParse
  ELSE LET timestamp == LastTimestamp(header.parts, Num(0))
           signatures == {header.parts[i].sig :
                            i \in {j \in DOMAIN header.parts : header.parts[j].key \in {"v0", "v1"}}}
       IN IF timestamp = Num(0) \/ signatures = {} THEN NoParse
          ELSE [ok |-> TRUE, timestamp |-> timestamp, signatures |-> signatures]

Abs(x) == IF x < 0 THEN -x ELSE x

\* verifyWebhookSignature evaluated at time now; a comparison with NaN is false
verifyWebhookSignature_noTolerance(payload, signatureHeader, secret, toleranceSeconds, now) ==
  LET parsed == parseSignatureHeader(signatureHeader) IN
  IF ~parsed.ok THEN FALSE
  ELSE LET expectedSignature ==
             hmacSha256([ts |-> parsed.timestamp, payload |-> payload], secret)
       IN \E sig \in parsed.signatures : sig = expectedSignature

verifyWebhookSignature(payload, signatureHeader, secret, toleranceSeconds, now) ==
  LET parsed == parseSignatureHeader(signatureHeader) IN
  IF ~parsed.ok THEN FALSE
  ELSE IF ~parsed.timestamp.nan /\ Abs(now - parsed.timestamp.n) > toleranceSeconds THEN FALSE
  ELSE LET expectedSignature ==
             hmacSha256([ts |-> parsed.timestamp, payload |-> payload], secret)
       IN \E sig \in parsed.signatures : sig = expectedSignature

\* Inputs: a header is generated for (payload, secret, timestamp) at genNow,
\* reaches the receiver in one of the shapes below, and is verified at now against
\* the receiver's body and secret.
Epoch == 1700000000

Stamps == Epoch..(Epoch + MaxStamp)

Skews ==
  LET d == (0..MaxSkew) \cup ((DEFAULT_TOLERANCE_SECONDS - MaxSkew)..(DEFAULT_TOLERANCE_SECONDS + MaxSkew))
  IN d \cup {-x : x \in d}

Payloads == {"{\"a\":1}", "{\"a\":2}"}

Secrets == {"whsec_1", "whsec_2"}

SignatureCalls ==
  [fn : {"verifyWebhookSignature"},
   payload : Payloads, secret : Secrets, timestamp : {0} \cup Stamps, genNow : Stamps,
   shape : {"genuine", "absent", "empty", "no_timestamp", "no_signature",
            "nan_timestamp", "garbage_signature", "extra_signature"},
   body : Payloads, key : Secrets,
   now : {b + s : b \in Stamps, s \in Skews}]

\* the header the receiver gets for a call: "absent" is a request without the
\* header, "empty" the single part of "".split(",")
HeaderOf(c) ==
  LET h == generateWebhookSignature(c.payload, c.secret, c.timestamp, c.genNow)
      t == h.parts[1]
      v == h.parts[2]
  IN CASE c.shape = "genuine" -> h
       [] c.shape = "absent" -> [present |-> FALSE, parts |-> <<>>]
       [] c.shape = "empty" -> Header(<<SignaturePart("", NoSignature)>>)
       [] c.shape = "no_timestamp" -> Header(<<v>>)
       [] c.shape = "no_signature" -> Header(<<t>>)
       [] c.shape = "nan_timestamp" -> Header(<<TimestampPart(NaN), v>>)
       [] c.shape = "garbage_signature" -> Header(<<t, SignaturePart("v1", GarbageSignature)>>)
       [] c.shape = "extra_signature" -> Header(<<t, SignaturePart("v0", GarbageSignature), v>>)

VerifySignature ==
  /\ call.fn = "verifyWebhookSignature"
  /\ result = NoReturn
  /\ result' = [fn |-> "verifyWebhookSignature",
                out |-> verifyWebhookSignature(call.body, HeaderOf(call), call.key,
                                               DEFAULT_TOLERANCE_SECONDS, call.now)]
  /\ UNCHANGED call
  /\ UNCHANGED <<webhookVars, rateVars, intakeVars>>

\* The signature utilities alone, on one of their inputs.
InitSignature ==
  /\ InitWebhook /\ InitRate /\ InitIntake
  /\ rateLimit = DEFAULT_RATE_LIMIT
  /\ env = Configured
  /\ call \in SignatureCalls
  /\ result = NoReturn

SpecSignature == InitSignature /\ [][VerifySignature]_vars

Spec == Init /\ [][NextIntake]_vars

\* The Worker handling requests concurrently: a request may arrive while
\* others are between two awaits.
NextRace ==
  \/ \E r \in ReqSlots : SubmitStartFrom(r, {Clean})
  \/ \E r \in ReqSlots : SubmitResolve(r)
  \/ \E r \in ReqSlots : SubmitCreateForm(r)
  \/ \E r \in ReqSlots : SubmitStore(r)
  \/ \E r \in ReqSlots : SubmitToken(r)
  \/ \E r \in ReqSlots : SubmitTokenEmail(r)
  \/ \E r \in ReqSlots : SubmitVerificationEmail(r)
  \/ \E r \in ReqSlots : SubmitNotify(r)
  \/ \E r \in ReqSlots : SubmitWebhookInsert(r)
  \/ \E r \in ReqSlots : SubmitWebhookSend(r)
  \/ \E r \in ReqSlots : VerifyStart(r)
  \/ \E r \in ReqSlots : VerifyResolve(r)
  \/ \E r \in ReqSlots : VerifyMark(r)
  \/ \E r \in ReqSlots : VerifyDelete(r)
  \/ \E r \in ReqSlots : HandlerThrows(r)
  \/ ExpireToken
  \/ UpdateFormSettings

SpecRace == InitConfigured /\ [][NextRace]_vars

\* Concurrent submissions to forms nobody has verified yet: the steps of
\* the submit handler up to the verification email.
NextFirstSubmissions ==
  \/ \E r \in ReqSlots : SubmitStartFrom(r, {Clean})
  \/ \E r \in ReqSlots : SubmitResolve(r)
  \/ \E r \in ReqSlots : SubmitCreateForm(r)
  \/ \E r \in ReqSlots : SubmitStore(r)
  \/ \E r \in ReqSlots : SubmitToken(r)
  \/ \E r \in ReqSlots : SubmitTokenEmail(r)
  \/ \E r \in ReqSlots : SubmitVerificationEmail(r)
  \/ \E r \in ReqSlots : HandlerThrows(r)

SpecFirstSubmissions == InitConfigured /\ [][NextFirstSubmissions]_vars

SpecTraps == Init /\ [][NextTraps]_vars

SpecWebhook == InitConfigured /\ [][NextWebhook]_vars

\* The queue hands out every task it holds and an invocation that has
\* started runs on: each await of the consumer returns or throws.
SpecWebhookFair ==
  /\ SpecWebhook
  /\ WF_vars(Receive \/ DeliverFetch \/ DeliverSuccess \/ DeliverHttpError
               \/ DeliverCatch \/ ScheduleRetry \/ Ack \/ Nack)

\* The same without an assumption on the endpoint: fetch(url, ...) is called
\* without a signal or timeout, so nothing makes a pending call return.
SpecWebhookAnyEndpoint ==
  /\ SpecWebhook
  /\ WF_vars(Receive \/ DeliverSuccess \/ DeliverHttpError
               \/ DeliverCatch \/ ScheduleRetry \/ Ack \/ Nack)

SpecRateSeq == InitLimiter /\ [][NextRateSeq]_vars

SpecRateRace == InitRateRace /\ [][NextRateRace]_vars

SpecLimited == InitLimiter /\ [][NextLimited]_vars

(***************************************************************************)
(* Properties of the webhook dispatcher and retry scheduler (SpecWebhook). *)
(***************************************************************************)
Status(d) == deliveries[d].status

\* C2: processing a task whose delivery record already has status success
\* makes no HTTP call and leaves the record's attempts, status and
\* last_error unchanged.
C2_SuccessIsIdempotent ==
  [][\A d \in DOMAIN deliveries :
       Status(d) = "success" =>
         /\ httpCalls'[d] = httpCalls[d]
         /\ deliveries'[d] = deliveries[d]]_vars

\* C3: after the 5th failed attempt the record becomes failed and no 6th
\* task is enqueued; after a failed attempt n < 5 exactly one task with
\* attempt n + 1 is enqueued and the record is not marked failed.
C3_RetryThenFail ==
  /\ [](\A m \in enqueued : m.attempt <= 5)
  /\ [][(wstate.pc = "schedule" /\ wstate'.pc = "ack") =>
            LET m == wstate.msg
                d == m.delivery_id
            IN IF m.attempt >= 5
                 THEN /\ deliveries'[d].status = "failed"
                      /\ queue' = queue
                      /\ enqueued' = enqueued
                 ELSE /\ \E r \in BagToSet(queue') :
                           /\ r.delivery_id = d
                           /\ r.attempt = m.attempt + 1
                           /\ queue' = queue (+) SetToBag({r})
                      /\ deliveries' = deliveries]_vars

C3_Witness ==
  \E d \in DOMAIN deliveries :
    /\ Status(d) = "failed"
    /\ deliveries[d].attempts = 5
    /\ \A n \in 1..5 : \E m \in enqueued : m.delivery_id = d /\ m.attempt = n
    /\ BagToSet(queue) = {}

\* The delay, in seconds, before the retry that follows failed attempt n.
DelayAfterAttempt == <<2, 4, 8, 16, 32>>

C5_TerminalStatus ==
  [][\A d \in DOMAIN deliveries :
       /\ Status(d) \in {"success", "failed"} => deliveries'[d].status = Status(d)
       /\ Status(d) = "pending" => deliveries'[d].status \in {"pending", "success", "failed"}]_vars

(***************************************************************************)
(* Properties of the rate limiter under sequential requests (SpecRateSeq). *)
(***************************************************************************)
\* C6: sequential requests on one key with limit L inside one 60-second
\* window: requests 1..L are allowed, the n-th of them reports remaining
\* L - n (so the L-th reports 0), and every later request is denied.
C6_SequentialLimit ==
  rlResult.seq > 0 =>
    /\ rlResult.seq <= rateLimit =>
         rlResult.allowed /\ rlResult.remaining = rateLimit - rlResult.seq
    /\ rlResult.seq > rateLimit => ~rlResult.allowed /\ rlResult.status = "429"

C6_Witness ==
  /\ rateLimit = DEFAULT_RATE_LIMIT
  /\ rlResult.seq = rateLimit + 1
  /\ ~rlResult.allowed
  /\ \E k \in DOMAIN kvRate : kvRate[k].count = rateLimit

(***************************************************************************)
(* Properties of the submission and verification handlers (Spec).          *)
(***************************************************************************)
\* A decoy field of the request body carries a non-blank value.
HoneypotFilled(raw) ==
  \E f \in {"_honeypot", "_gotcha", "website"} :
    raw[f].t # "absent" /\ Trim(raw[f].v) # ""

\* C1: a submission in which a honeypot-named field is non-empty is
\* answered with the generic success body and stores no submission, issues
\* no token and creates no webhook delivery.
C1_HoneypotNoEffects ==
  (done.kind = "submit" /\ HoneypotFilled(done.raw)) =>
    /\ done.response = "success_json"
    /\ done.sub = 0
    /\ done.token = 0
    /\ done.delivery = 0

\* verifyToken finds the string t.
Redeemable(t) == verifyToken(kvVerify, t).found

\* C7: verification tokens are one-time use: a string is found only while it
\* is an issued token that has not been consumed, and then with the data
\* stored at issue; a token just issued is found; a consumed token is not.
C7_OneTimeUse ==
  /\ [](\A t \in TokenStrings :
          /\ Redeemable(t) =>
               /\ t \in DOMAIN issued
               /\ t \notin consumed
               /\ verifyToken(kvVerify, t).data = issued[t]
          /\ t \in consumed => ~Redeemable(t))
  /\ [][\A t \in DOMAIN issued' \ DOMAIN issued :
          verifyToken(kvVerify', t) = [found |-> TRUE, data |-> issued'[t]]]_vars

C7_Witness ==
  /\ done.kind = "verify"
  /\ done.response = "link_expired"
  /\ done.token \in consumed
  /\ \E t \in DOMAIN issued : t # done.token /\ Redeemable(t)

\* Tokens are numbered in the order createVerificationToken returns them.
IssuedBefore(t1, t2) == t1 \in DOMAIN issued /\ t2 \in DOMAIN issued /\ t1 < t2

\* C8: once a later token has been issued for the same email, so that the
\* email -> token pointer references another token, redeeming the older
\* token does not verify the form.
C8_StaleTokenFailsClosed ==
  [][\A r \in ReqSlots :
       LET e == req[r].target.email IN
       (/\ req[r].kind = "verify"
        /\ e \in DOMAIN kvVerifyEmail
        /\ IssuedBefore(req[r].token, kvVerifyEmail[e])
        /\ e \in DOMAIN forms
        /\ ~forms[e].verified)
       => ~forms'[e].verified]_vars

VerificationEmail(e, t) == [kind |-> "verification", to |-> e, ref |-> t]

NotificationEmail(e, sub) == [kind |-> "notification", to |-> e, ref |-> sub]

DeliveriesOf(table, sub) == {d \in DOMAIN table : table[d].submission_id = sub}

\* C9: a non-spam submission to an unverified form is answered with the
\* verification-pending page (or a server error when a call fails); when
\* the page is returned a token for the form's email is stored, the only
\* email sent for the request is the verification email, and the
\* submission has no notification email, no delivery record and no task.
C9_UnverifiedSubmission ==
  /\ [](\A r \in ReqSlots :
          /\ (req[r].kind = "submit" /\ req[r].sub # 0 /\ req[r].form.exists
              /\ ~req[r].form.verified)
             => req[r].pc \in {"token", "token_email", "verify_email"}
          /\ req[r].pc \in {"token", "token_email", "verify_email"}
             => ~submissions[req[r].sub].is_spam /\ ~req[r].form.verified)
  /\ [][\A r \in ReqSlots :
          (req[r].pc \in {"token", "token_email", "verify_email"} /\ req'[r].pc = "idle")
          => /\ done'.response \in {"verification_pending", "500"}
             /\ done'.response = "verification_pending" =>
                  LET e == req[r].form.email
                      t == req[r].token
                      sub == req[r].sub
                  IN /\ verifyToken(kvVerify', t).found
                     /\ kvVerify'[t].email = e
                     /\ kvVerifyEmail'[e] = t
                     /\ emails' \ emails \subseteq {VerificationEmail(e, t)}
                     /\ env.BREVO_API_KEY => VerificationEmail(e, t) \in emails'
                     /\ NotificationEmail(e, sub) \notin emails'
                     /\ DeliveriesOf(deliveries', sub) = {}
                     /\ enqueued' = enqueued /\ queue' = queue]_vars

C9_Witness ==
  /\ done.kind = "submit"
  /\ done.response = "verification_pending"
  /\ Redeemable(done.token)
  /\ VerificationEmail(done.target.email, done.token) \in emails
  /\ DeliveriesOf(deliveries, done.sub) = {}
  /\ enqueued = {}

\* the webhook URL of a request: _webhook of the body or the form default
HasWebhookUrl(request) ==
  Truthy(Special(request.raw._webhook)) \/ request.form.webhook_url

\* C10: a non-spam submission to a verified form with a webhook URL sends
\* the notification email first, then creates exactly one delivery record
\* with status pending and attempts 0 and enqueues exactly one task for
\* it, with attempt 1 (or ends in a server error when a call fails).
C10_VerifiedWithWebhook ==
  /\ [](\A r \in ReqSlots :
          req[r].pc \in {"webhook_insert", "webhook_send"} =>
            /\ env.BREVO_API_KEY => NotificationEmail(req[r].form.email, req[r].sub) \in emails
            /\ req[r].form.verified /\ HasWebhookUrl(req[r])
            /\ ~submissions[req[r].sub].is_spam)
  /\ [][\A r \in ReqSlots :
          /\ (req[r].pc = "notify" /\ req'[r].pc # "notify" /\ HasWebhookUrl(req[r]))
             => \/ req'[r].pc = "webhook_insert" /\ DeliveriesOf(deliveries', req[r].sub) = {}
                \/ req'[r].pc = "idle" /\ done'.response = "500"
          /\ (req[r].pc = "webhook_send" /\ req'[r].pc = "idle" /\ done'.response # "500")
             => LET sub == req[r].sub
                    d == req[r].delivery
                    tasks == {m \in enqueued' : m.delivery_id \in DeliveriesOf(deliveries', sub)}
                IN /\ DeliveriesOf(deliveries', sub) = {d}
                   /\ deliveries'[d].status = "pending"
                   /\ deliveries'[d].attempts = 0
                   /\ tasks = {[delivery_id |-> d, attempt |-> 1, delaySeconds |-> 0]}
                   /\ \A m \in tasks : CopiesIn(m, queue') = 1]_vars

C10_Witness ==
  /\ done.kind = "submit"
  /\ done.delivery # 0
  /\ done.response \in {"thank_you", "redirect", "accepted_json"}
  /\ NotificationEmail(done.target.email, done.sub) \in emails
  /\ DeliveriesOf(deliveries, done.sub) = {done.delivery}
  /\ deliveries[done.delivery].status = "pending"
  /\ FirstMessage(done.delivery) \in enqueued

\* C11: a submission scored as spam (score >= 50) is stored tagged is_spam
\* and answered with the generic success body of the honeypot path; no
\* notification email, token, verification email, delivery record or task
\* ever exists for it, whether the form is verified or not.
C11_SpamAbsorbed ==
  /\ [](\A id \in DOMAIN submissions :
          /\ submissions[id].is_spam <=> submissions[id].spam_score >= 50
          /\ submissions[id].is_spam =>
               /\ NotificationEmail(submissions[id].form, id) \notin emails
               /\ \A t \in DOMAIN issued :
                    /\ issued[t].submission_id # id
                    /\ t \in DOMAIN kvVerify => kvVerify[t].submission_id # id
               /\ DeliveriesOf(deliveries, id) = {}
               /\ \A r \in ReqSlots : req[r].sub # id)
  /\ [][\A r \in ReqSlots :
          (/\ req[r].pc = "store"
           /\ Cardinality(DOMAIN submissions') > Cardinality(DOMAIN submissions)
           /\ submissions'[Cardinality(DOMAIN submissions')].is_spam)
          => /\ req'[r].pc = "idle"
             /\ done'.response = "success_json"
             /\ done'.sub = Cardinality(DOMAIN submissions')
             /\ emails' = emails
             /\ kvVerify' = kvVerify /\ kvVerifyEmail' = kvVerifyEmail
             /\ deliveries' = deliveries /\ queue' = queue]_vars

C11_Witness ==
  /\ done.kind = "submit"
  /\ done.response = "success_json"
  /\ done.sub # 0
  /\ submissions[done.sub].is_spam
  /\ forms[done.target.email].verified
  /\ emails # {}

(***************************************************************************)
(* Properties of the abuse filter (SpecSpamFilter).                        *)
(***************************************************************************)
\* C12: for every input the score returned by the abuse filter lies in
\* 0..100, and isSpam is true exactly when the score is at least 50.
C12_ScoreRange ==
  result.fn = "checkSpam" =>
    /\ result.out.score \in 0..100
    /\ result.out.isSpam <=> result.out.score >= 50

C12_Witness ==
  /\ result.fn = "checkSpam"
  /\ call.trap = "website"
  /\ Len(call.message.words) >= 3
  /\ call.links > 3
  /\ result.out.score = 100
  /\ result.out.isSpam

\* The blacklist phrases present in the string fields of a call's body.
PhrasesPresent(c) ==
  LET custom == IF c._blacklist.v # ""
                  THEN {TrimLower(c._blacklist.words[i]) : i \in DOMAIN c._blacklist.words}
                  ELSE {}
      phrases == {DEFAULT_BLACKLIST[i] : i \in DOMAIN DEFAULT_BLACKLIST} \cup custom
  IN {p \in phrases :
        \E value \in {c.message, c.name} : value.t = "string" /\ Includes(value, p)}

\* The call has nothing but the blacklist to score.
BlacklistOnly(c) ==
  c.trap = "none" /\ c._captcha = Absent /\ c.links <= 3

\* C13: the blacklist adds 20, 40, 60, 60 to the score when 1, 2, 3, 4 or
\* more distinct blacklist phrases are present in the submission, and
\* nothing when none is.
C13_BlacklistContribution ==
  (result.fn = "checkSpam" /\ BlacklistOnly(call)) =>
    LET n == Cardinality(PhrasesPresent(call))
    IN result.out.score = IF n = 0 THEN 0 ELSE <<20, 40, 60, 60>>[Min(n, 4)]

C13_Witness ==
  /\ result.fn = "checkSpam"
  /\ BlacklistOnly(call)
  /\ Cardinality(PhrasesPresent(call)) >= 4
  /\ call.name = Text(<<"viagra">>)
  /\ result.out.score = 60

\* C20: the attempt counters stay in lockstep under partial failures: when
\* an invocation that failed (the record update or the retry enqueue threw)
\* hands its message back, every queued task with attempt k+1 belongs to a
\* delivery whose record has attempts = k.
C20_AttemptLockstep ==
  [][(wstate.pc = "nack" /\ wstate'.pc = "idle") =>
       \A m \in BagToSet(queue') : deliveries'[m.delivery_id].attempts = m.attempt - 1]_vars

(***************************************************************************)
(* Properties of the handlers under failing calls (Spec).                  *)
(***************************************************************************)
\* C14: creating the delivery record and enqueuing its first task never
\* fails the response: a request that has reached the webhook steps ends
\* with its normal redirect, JSON or thank-you response.
C14_WebhookNeverFailsResponse ==
  [][\A r \in ReqSlots :
       (req[r].pc \in {"webhook_insert", "webhook_send"} /\ req'[r].pc = "idle")
       => done'.response = FinalResponse(req[r].raw)]_vars

\* C15: in the verified path no webhook work precedes the notification
\* email: when the email send fails the request ends with a server error
\* and no delivery record or task exists for the submission.
C15_EmailBeforeWebhook ==
  /\ [](\A r \in ReqSlots :
          (req[r].sub # 0 /\ req[r].pc \in {"token", "token_email", "verify_email", "notify"})
          => /\ DeliveriesOf(deliveries, req[r].sub) = {}
             /\ req[r].delivery = 0)
  /\ [][\A r \in ReqSlots :
          (req[r].pc = "notify" /\ req'[r].pc = "idle" /\ faults' # faults)
          => /\ done'.response = "500"
             /\ done'.sub = req[r].sub
             /\ DeliveriesOf(deliveries', req[r].sub) = {}
             /\ enqueued' = enqueued /\ queue' = queue
             /\ emails' = emails]_vars

C15_Witness ==
  /\ NoneInFlight
  /\ done.kind = "submit"
  /\ done.response = "500"
  /\ done.sub # 0
  /\ ~submissions[done.sub].is_spam
  /\ forms[done.target.email].verified
  /\ Truthy(done.raw._webhook)
  /\ env.BREVO_API_KEY
  /\ NotificationEmail(done.target.email, done.sub) \notin emails
  /\ DeliveriesOf(deliveries, done.sub) = {}

C18_CaptchaFalseDisables ==
  (result.fn = "checkSpam" /\ call._captcha = Str("false")) =>
    LET without == checkSpam(call.secretKey,
                             extractSpecialFields(RawOf([call EXCEPT !._captcha = Absent])),
                             call.reply, DEFAULT_RECAPTCHA_THRESHOLD)
    IN /\ ~result.out.siteverify
       /\ result.out.score = without.score
       /\ result.out.reasons = without.reasons

\* The spam-trap fields the README names.
TrapFilled(raw) ==
  \E f \in {"_honeypot", "_honey"} : raw[f].t # "absent" /\ raw[f].v # ""

\* C19: a submission that fills _honeypot or _honey is silently rejected:
\* it is never processed past the quick check, it is answered with the
\* generic success body, and no submission, email or webhook delivery comes
\* from it.
C19_TrapSilentlyRejected ==
  /\ \A r \in ReqSlots : req[r].kind = "submit" => ~TrapFilled(req[r].raw)
  /\ (done.kind = "submit" /\ TrapFilled(done.raw)) =>
       /\ done.response = "success_json"
       /\ done.sub = 0
       /\ done.delivery = 0
       /\ VerificationEmail(done.target.email, done.token) \notin emails

(***************************************************************************)
(* Properties of the webhook signature (SpecSignature).                    *)
(***************************************************************************)
\* C17 (as the code has it): a header generated for (payload, secret, t)
\* carries ts = t, or the generation time when t is 0, and is accepted for the
\* same payload and secret iff |now - ts| <= 300; an absent header, a header
\* without timestamp or without v-signature, a timestamp outside the
\* tolerance, and a different payload or secret are all rejected.
C17_SignatureRoundTripStamped ==
  result.fn = "verifyWebhookSignature" =>
    LET same == call.body = call.payload /\ call.key = call.secret
        ts == IF call.timestamp # 0 THEN call.timestamp ELSE call.genNow
        inWindow == Abs(call.now - ts) <= DEFAULT_TOLERANCE_SECONDS
    IN /\ HeaderOf([call EXCEPT !.shape = "genuine"]).parts[1].int.n = ts
       /\ (call.shape = "genuine" /\ same) => (result.out <=> inWindow)
       /\ call.shape \in {"absent", "empty", "no_timestamp", "no_signature"} => ~result.out
       /\ (call.shape \in {"genuine", "garbage_signature", "extra_signature"} /\ ~inWindow)
          => ~result.out
       /\ (call.shape \in {"genuine", "extra_signature"} /\ ~same) => ~result.out
       /\ call.shape = "garbage_signature" => ~result.out

C17_Witness ==
  /\ result.fn = "verifyWebhookSignature"
  /\ call.shape = "genuine"
  /\ call.timestamp # 0
  /\ call.body = call.payload /\ call.key = call.secret
  /\ call.now - call.timestamp = DEFAULT_TOLERANCE_SECONDS
  /\ result.out

\* C17 (as stated): a header generated for (payload, secret, t) is accepted for the same
\* payload and secret iff |now - t| <= 300; an absent header, a header
\* without timestamp or without v-signature, a timestamp outside the
\* tolerance, and a different payload or secret are all rejected.
C17_SignatureRoundTrip ==
  result.fn = "verifyWebhookSignature" =>
    LET same == call.body = call.payload /\ call.key = call.secret
        inWindow == Abs(call.now - call.timestamp) <= DEFAULT_TOLERANCE_SECONDS
    IN /\ (call.shape = "genuine" /\ same) => (result.out <=> inWindow)
       /\ call.shape \in {"absent", "empty", "no_timestamp", "no_signature"} => ~result.out
       /\ (call.shape = "genuine" /\ ~inWindow) => ~result.out
       /\ (call.shape = "genuine" /\ ~same) => ~result.out

(***************************************************************************)
(* Properties of a delivery lineage (SpecWebhook).                         *)
(***************************************************************************)
\* C21: the attempts of a delivery are processed in order 1, 2, 3, ...
\* without gaps or repeats: when the consumer takes the task with attempt n,
\* exactly n - 1 HTTP attempts have been made for its delivery.
C21_AttemptsInOrder ==
  [][(wstate.pc = "idle" /\ wstate'.pc = "fetch") =>
       httpCalls[wstate'.msg.delivery_id] = wstate'.msg.attempt - 1]_vars

\* C22: every delivery lineage terminates: a delivery record, once created,
\* eventually has status success or failed, and at most MAX_RETRY_ATTEMPTS
\* HTTP attempts are made for it.
C22_LineageTerminates ==
  /\ \A d \in DeliveryIds :
       [](d \in DOMAIN deliveries =>
            <>(d \in DOMAIN deliveries /\ Status(d) \in {"success", "failed"}))
  /\ [](\A d \in DeliveryIds : httpCalls[d] <= MAX_RETRY_ATTEMPTS)

\* C23: a hanging endpoint is a failed attempt: the HTTP call of a task the
\* consumer has picked up completes (with an answer, an error or a timeout),
\* so the task always runs to its end and the consumer becomes free again.
C23_HangIsFailure ==
  [](wstate.pc = "fetch" => <>(wstate.pc # "fetch"))

\* The tasks of delivery d that are queued or being processed.
Outstanding(d) ==
  {m \in BagToSet(queue) : m.delivery_id = d}
    \cup (IF wstate.pc # "idle" /\ wstate.msg.delivery_id = d THEN {wstate.msg} ELSE {})

C25_DispatcherRecordsFailure ==
  [][(wstate.pc \in {"fetch", "mark_success", "record_error", "catch"} /\ wstate' # wstate) =>
       LET m == wstate.msg
           d == m.delivery_id
       IN /\ queue' = queue
          /\ enqueued' = enqueued
          /\ deliveries'[d].status = "failed" => deliveries[d].status = "failed"
          /\ wstate'.pc = "schedule" =>
               /\ wstate.error # "null"
               /\ deliveries' = [deliveries EXCEPT ![d].attempts = m.attempt,
                                                   ![d].last_error = wstate.error]]_vars

C25_Witness ==
  /\ wstate.pc = "schedule"
  /\ wstate.error = "network_error"
  /\ wstate.msg.attempt = 2
  /\ Status(wstate.msg.delivery_id) = "pending"
  /\ deliveries[wstate.msg.delivery_id].attempts = 2
  /\ deliveries[wstate.msg.delivery_id].last_error = "network_error"
  /\ BagToSet(queue) = {}

\* C26: on a 2xx answer to attempt n deliverWebhook writes status success,
\* attempts = n and last_error = null, and the invocation ends without
\* enqueuing a task for the delivery.
C26_SuccessRecorded ==
  /\ [](wstate.pc = "mark_success" => wstate.error = "null")
  /\ [][(wstate.pc = "mark_success" /\ wstate' # wstate) =>
          LET m == wstate.msg IN
          /\ deliveries' = [deliveries EXCEPT ![m.delivery_id].status = "success",
                                              ![m.delivery_id].attempts = m.attempt,
                                              ![m.delivery_id].last_error = "null"]
          /\ wstate'.pc = "ack"
          /\ queue' = queue
          /\ enqueued' = enqueued]_vars
  /\ [][(wstate.pc = "ack" /\ wstate.error = "null" /\ wstate' # wstate) =>
          /\ wstate'.pc = "idle"
          /\ queue' = queue
          /\ enqueued' = enqueued
          /\ deliveries' = deliveries]_vars

\* C27: a failed attempt n < MAX_RETRY_ATTEMPTS keeps the record pending,
\* sets its attempt count to n and advances next_retry_at: once the retry is
\* scheduled, next_retry_at is set (non-null).
C27_NextRetryAdvanced ==
  [][(wstate.pc = "schedule" /\ wstate'.pc = "ack" /\ shouldRetry(wstate.msg.attempt)) =>
       LET d == wstate.msg.delivery_id IN
       /\ deliveries'[d].attempts = wstate.msg.attempt
       /\ Status(d) = "pending" => deliveries'[d].status = "pending"
       /\ deliveries'[d].next_retry_at # "null"]_vars

(***************************************************************************)
(* Properties of token consumption (Spec, SpecRace).                       *)
(***************************************************************************)
\* C28: consuming a token deletes its forward mapping, and deletes the
\* reverse email -> token mapping only if that still points at this token:
\* when a later token was issued for the email, its pointer stays.
C28_ConsumeKeepsNewerPointer ==
  [][\A r \in ReqSlots :
       (req[r].pc = "v_delete" /\ req'[r].pc = "idle" /\ faults' = faults) =>
         LET token == req[r].token
             e == req[r].target.email
         IN /\ token \notin DOMAIN kvVerify'
            /\ (e \in DOMAIN kvVerifyEmail /\ IssuedBefore(token, kvVerifyEmail[e]))
                 => kvVerifyEmail' = kvVerifyEmail
            /\ (e \in DOMAIN kvVerifyEmail /\ kvVerifyEmail[e] = token)
                 => e \notin DOMAIN kvVerifyEmail']_vars

\* C29: the token is consumed only after the form's verified timestamp is
\* set: a consumed token's form is verified, the handler reaches the delete
\* only with the form verified, and when setting the timestamp throws the
\* token stays redeemable.
C29_ConsumeAfterVerified ==
  /\ [](\A t \in consumed : forms[issued[t].email].verified)
  /\ [](\A r \in ReqSlots : req[r].pc = "v_delete" => forms[req[r].target.email].verified)
  /\ [][\A r \in ReqSlots :
          (req[r].pc = "v_mark" /\ req'[r].pc = "idle") =>
            /\ done'.response = "500"
            /\ forms' = forms
            /\ consumed' = consumed
            /\ verifyToken(kvVerify', req[r].token) = verifyToken(kvVerify, req[r].token)
            /\ verifyToken(kvVerify', req[r].token).found]_vars

C29_Witness ==
  /\ NoneInFlight
  /\ done.kind = "verify"
  /\ done.response = "500"
  /\ Redeemable(done.token)
  /\ ~forms[issued[done.token].email].verified
  /\ consumed = {}

\* C30: one-time use under concurrency: of two interleaved GET
\* /verify/:token for the same live token at most one reports success, i.e.
\* a request that reports verification success is the first to consume its
\* token.
C30_OneSuccessPerToken ==
  [][\A r \in ReqSlots :
       (req[r].pc = "v_delete" /\ req'[r].pc = "idle" /\ done'.response = "verified")
       => req[r].token \notin consumed]_vars

(* Properties of concurrent requests (SpecFirstSubmissions, SpecRateRace). *)

\* C31: at most one form exists per normalized email: a request that found
\* no form and reaches the insert after another request has created it gets
\* a server error and the forms table is left as it was; an insert that
\* succeeds adds exactly the one row for the request's email.
C31_FormEmailUnique ==
  [][\A r \in ReqSlots :
       (req[r].pc = "create" /\ req'[r].pc # "create") =>
         IF req[r].target.email \in DOMAIN forms
           THEN forms' = forms /\ req'[r].pc = "idle" /\ done'.response = "500"
           ELSE \/ forms' = forms /\ done'.response = "500"
                \/ /\ DOMAIN forms' = DOMAIN forms \cup {req[r].target.email}
                   /\ \A e \in DOMAIN forms : forms'[e] = forms[e]]_vars

C31_Witness ==
  /\ faults = 0
  /\ done.kind = "submit" /\ done.response = "500" /\ done.sub = 0
  /\ done.target.kind = "email" /\ done.target.email \in DOMAIN forms

C33_DeniedLeavesWindow ==
  [][\A r \in RlSlots :
       (rl[r].pc = "read" /\ rl'[r].pc = "idle") =>
         LET key == getRateLimitKey(rl[r].ip, rl[r].target) IN
         /\ rlResult'.status = "429" =>
              /\ kvRate' = kvRate
              /\ key \in DOMAIN kvRate
              /\ rlResult'.reset = kvRate[key].window + RATE_LIMIT_WINDOW
              /\ rlResult'.remaining = 0
         /\ (rlResult.status = "429" /\ rlResult.key = key /\ rl[r].now > rlResult.reset)
              => /\ rlResult'.allowed
                 /\ rlResult'.status = "next"
                 /\ kvRate'[key].window = rl[r].now]_vars

C33_Witness ==
  /\ rlResult.status = "429"
  /\ rlResult.seq >= rateLimit + 2
  /\ clock > rlResult.now
  /\ rlResult.key \in DOMAIN kvRate
  /\ kvRate[rlResult.key].count = rateLimit
  /\ rlResult.reset = kvRate[rlResult.key].window + RATE_LIMIT_WINDOW

\* C34: a check that finds no stored window, or a stored window that
\* started more than 60 seconds before now, writes the fresh window
\* {count: 1, window: now}, allows the request and reports remaining =
\* limit - 1; a stored window that started at most 60 seconds before now
\* keeps its start.
C34_FreshWindow ==
  [][\A r \in RlSlots :
       (rl[r].pc = "read" /\ rl'[r].pc = "idle") =>
         LET key == getRateLimitKey(rl[r].ip, rl[r].target)
             now == rl[r].now
             stored == KvGetRate(kvRate, key, now)
         IN IF stored = NoData \/ now - stored.window > RATE_LIMIT_WINDOW
              THEN /\ kvRate'[key].count = 1
                   /\ kvRate'[key].window = now
                   /\ rlResult'.allowed
                   /\ rlResult'.status = "next"
                   /\ rlResult'.remaining = rateLimit - 1
              ELSE /\ key \in DOMAIN kvRate'
                   /\ kvRate'[key].window = stored.window]_vars

C34_Witness ==
  /\ rlResult.allowed
  /\ rlResult.now > RATE_LIMIT_WINDOW
  /\ rlResult.remaining = rateLimit - 1
  /\ winCount[rlResult.key] = 1
  /\ checks >= 2
  /\ kvRate[rlResult.key].count = 1
  /\ kvRate[rlResult.key].window = rlResult.now

\* C38: under any interleaving of checks with limit L >= 1, every stored
\* window has 1 <= count <= L, an allowed request reports a remaining value
\* in 0..L-1 and a denied one reports 0.
C38_CountWithinLimit ==
  /\ \A k \in DOMAIN kvRate : kvRate[k].count >= 1 /\ kvRate[k].count <= rateLimit
  /\ rlResult.key # <<>> =>
       IF rlResult.allowed
         THEN rlResult.remaining >= 0 /\ rlResult.remaining <= rateLimit - 1
         ELSE rlResult.remaining = 0 /\ rlResult.status = "429"

C38_Witness ==
  /\ rlResult.key \in DOMAIN kvRate
  /\ kvRate[rlResult.key].count = rateLimit
  /\ rateLimit > 1
  /\ rlResult.allowed /\ rlResult.remaining = 0
  /\ \E w \in DOMAIN winRace[rlResult.key] :
       winRace[rlResult.key][w].admitted > rateLimit
  /\ \E r \in RlSlots : rl[r].pc = "read" /\ rl[r].data.count = rateLimit - 1

\* C40: a request with neither CF-Connecting-IP nor X-Forwarded-For is
\* passed on by the rate limiter without a check: it never enters
\* checkRateLimit, it leaves every stored window as it is, and it is never
\* answered 429, however many requests came before it.
C40_NoIpBypasses ==
  /\ [](\A r \in RlSlots : rl[r].pc = "read" => ~rl[r].headerless)
  /\ [](rlResult.headerless => rlResult.status = "next" /\ rlResult.key = <<>>)
  /\ [][(checks' = checks + 1 /\ rl' = rl) =>
          /\ kvRate' = kvRate
          /\ rlResult'.status = "next"]_vars

C40_Witness ==
  /\ rlResult.headerless
  /\ rlResult.status = "next"
  /\ checks > rateLimit + 1
  /\ \E k \in DOMAIN kvRate : kvRate[k].count = rateLimit /\ clock - kvRate[k].window < RATE_LIMIT_WINDOW

(* Properties of the limited submission route (SpecLimited). *)

\* C35: a POST /:target denied by the rate limiter is answered 429 by the
\* middleware and has no downstream effect: the step that denies it, and
\* every step until the next request arrives, runs no honeypot check,
\* creates no form, stores no submission, issues no token, sends no email
\* and creates no webhook delivery or task.
C35_DeniedBeforeHandler ==
  /\ [][(rlResult'.status = "429" /\ \E r \in RlSlots : rl[r].pc = "read" /\ rl'[r].pc = "idle")
          => intakeVars' = intakeVars /\ webhookVars' = webhookVars]_vars
  /\ [][(rlResult.status = "429" /\ checks' = checks) =>
          /\ nreq' = nreq
          /\ \A r \in ReqSlots : req'[r].kind # "submit"
          /\ done'.kind = "submit" => done' = done
          /\ DOMAIN forms' = DOMAIN forms
          /\ submissions' = submissions
          /\ issued' = issued
          /\ emails' = emails
          /\ deliveries' = deliveries
          /\ enqueued' = enqueued]_vars

C35_Witness ==
  /\ rlResult.status = "429"
  /\ clock > rlResult.now
  /\ nreq = rateLimit
  /\ done.kind = "submit"
  /\ NoneInFlight
  /\ DOMAIN submissions # {}

(* Further properties of the handlers (Spec, SpecTraps, SpecWebhook). *)

\* C37: the honeypot pre-check returns true exactly when one of the decoy
\* fields of the request carries a value that is non-empty after trimming.
C37_HoneypotIffFilled ==
  done.kind = "submit" =>
    (quickSpamCheck(extractSpecialFields(done.raw)) <=> HoneypotFilled(done.raw))

\* C36: GET /verify/:token does not replay the deferred submission: every
\* step of the verify handler leaves the emails sent, the submissions, the
\* delivery records and the queue as they were, and when it reports
\* success no notification email and no delivery exists for the submission
\* the token refers to.
C36_VerifyDoesNotReplay ==
  [][\A r \in ReqSlots :
       (req'[r] # req[r] /\ (req[r].kind = "verify" \/ req'[r].kind = "verify")) =>
         /\ emails' = emails
         /\ submissions' = submissions
         /\ deliveries' = deliveries
         /\ queue' = queue
         /\ enqueued' = enqueued
         /\ (req'[r].pc = "idle" /\ done'.response = "verified") =>
              LET data == issued[done'.token] IN
              /\ NotificationEmail(data.email, data.submission_id) \notin emails'
              /\ DeliveriesOf(deliveries', data.submission_id) = {}
              /\ forms'[data.email].verified
              /\ done'.token \in consumed']_vars

C36_Witness ==
  /\ NoneInFlight
  /\ done.kind = "verify" /\ done.response = "verified"
  /\ done.token \in consumed
  /\ forms[issued[done.token].email].verified
  /\ issued[done.token].submission_id \in DOMAIN submissions
  /\ ~submissions[issued[done.token].submission_id].is_spam
  /\ VerificationEmail(issued[done.token].email, done.token) \in emails
  /\ NotificationEmail(issued[done.token].email, issued[done.token].submission_id) \notin emails

\* C39: a delivery record with status failed has attempts equal to
\* MAX_RETRY_ATTEMPTS and a non-null last_error.
C39_FailedAfterMaxAttempts ==
  \A d \in DOMAIN deliveries :
    deliveries[d].status = "failed" =>
      /\ deliveries[d].attempts = MAX_RETRY_ATTEMPTS
      /\ deliveries[d].last_error # "null"

====
